---- MODULE Spec2Model ----
(***************************************************************************)
(* Verification model of the shopping assistant bot.                       *)
(*                                                                         *)
(*  - SpecOCR : OCRService._parse_receipt_text and its helpers, applied to *)
(*              receipt texts drawn from bounded sets.                     *)
(*  - Spec    : ReceiptHandler.handle_photo over the receipts database.    *)
(*  - SpecML  : DatabaseManager.add_purchase / get_purchase_patterns and   *)
(*              MLSuggestions.generate_shopping_suggestions over time.     *)
(*                                                                         *)
(* Text is modelled character by character: a string is a sequence of      *)
(* one-character strings, and every regular expression of the source is an *)
(* operator over such sequences.  Money is kept in cents (two decimals are *)
(* all the price grammar admits), so float(p) is PriceValue(p) / 100.      *)
(***************************************************************************)
EXTENDS Integers, Sequences, FiniteSets, TLC

VARIABLES
    text,           \* OCRService: the receipt text, as the list text.split('\n')
    pc,             \* OCRService: "start" before _parse_receipt_text ran, "done" after
    lines,          \* OCRService._parse_receipt_text: local `lines`
    total,          \* OCRService._parse_receipt_text: local `total` (Optional[float])
    result,         \* OCRService._parse_receipt_text: the returned dict
    users,          \* table users: set of telegram ids
    receipts,       \* table receipts: sequence of committed rows (id = index)
    products,       \* table products: sequence of committed rows (id = index)
    receipt_items,  \* table receipt_items: sequence of committed rows
    reply,          \* ReceiptHandler.handle_photo: last text of processing_msg
    purchases,      \* table purchases: sequence of rows (id = index)
    now,            \* the clock, in ticks of 1/TicksPerDay day
    requester,      \* MLSuggestions: user_id of the last generate_shopping_suggestions call, 0 before any
    patterns,       \* MLSuggestions: rows get_purchase_patterns returned to that call
    suggestions,    \* MLSuggestions: the dict that call returned
    call,           \* a function called on its own: its name and arguments
    ret,            \* what that call returned, with the locals a claim speaks of
    ai_enabled,     \* AIService.ai_enabled
    redis_client,   \* CacheService.redis_client: TRUE when connected, FALSE for None
    redis_db,       \* the Redis server: key -> [value, expires_at]
    memory_cache,   \* CacheService._memory_cache: key -> value
    clock,          \* the wall clock, in seconds
    stored_at,      \* history: key -> clock of the last cache_user_suggestions for it
    dietary_preferences,  \* users.dietary_preferences, by telegram id
    user_data,      \* SmartShopBot: context.user_data of each user (a dict)
    sent,           \* SmartShopBot: the Telegram calls made for the last update
    temp_files,     \* SmartShopBot: the files on disk, path -> image
    tasks,          \* SmartShopBot: the handle_photo invocations under way
    shopping_lists,       \* table shopping_lists: sequence of rows (id = index)
    shopping_list_items   \* table shopping_list_items: sequence of rows

ocrVars == <<text, pc, lines, total, result>>
dbVars  == <<users, receipts, products, receipt_items, reply>>
mlVars  == <<purchases, now, requester, patterns, suggestions>>
fnVars  == <<call, ret>>
aiVars  == <<ai_enabled, redis_client, redis_db, memory_cache, clock, stored_at,
             dietary_preferences>>
botVars == <<user_data, sent, temp_files, tasks>>
listVars == <<shopping_lists, shopping_list_items>>
svcVars == <<aiVars, botVars, listVars>>
vars    == <<text, pc, lines, total, result,
             users, receipts, products, receipt_items, reply,
             purchases, now, requester, patterns, suggestions,
             call, ret,
             ai_enabled, redis_client, redis_db, memory_cache, clock, stored_at,
             dietary_preferences,
             user_data, sent, temp_files, tasks,
             shopping_lists, shopping_list_items>>

(***************************************************************************)
(* Python values                                                           *)
(***************************************************************************)
None == [some |-> FALSE]
Some(v) == [some |-> TRUE, val |-> v]

(***************************************************************************)
(* Characters and strings                                                  *)
(***************************************************************************)
LowerCase == <<"a","b","c","d","e","f","g","h","i","j","k","l","m",
               "n","o","p","q","r","s","t","u","v","w","x","y","z">>
UpperCase == <<"A","B","C","D","E","F","G","H","I","J","K","L","M",
               "N","O","P","Q","R","S","T","U","V","W","X","Y","Z">>
DigitChars == <<"0","1","2","3","4","5","6","7","8","9">>

\* One-character stand-ins for the non-ASCII currency symbols.
EUR == "EUR"
GBP == "GBP"
JPY == "JPY"

Range(s) == {s[i] : i \in 1..Len(s)}

IsDigit(c) == c \in Range(DigitChars)
IsLower(c) == c \in Range(LowerCase)
IsUpper(c) == c \in Range(UpperCase)
IsAlpha(c) == IsLower(c) \/ IsUpper(c)
IsSpace(c) == c = " "

DigitVal(c) == (CHOOSE i \in 1..10 : DigitChars[i] = c) - 1

LowerChar(c) ==
    IF IsUpper(c) THEN LowerCase[CHOOSE i \in 1..26 : UpperCase[i] = c] ELSE c

\* str.lower()
Lower(s) == [i \in 1..Len(s) |-> LowerChar(s[i])]

\* str.strip()
Strip(s) ==
    LET idx == {i \in 1..Len(s) : ~IsSpace(s[i])}
    IN  IF idx = {} THEN <<>>
        ELSE LET a == CHOOSE i \in idx : \A j \in idx : i <= j
                 b == CHOOSE i \in idx : \A j \in idx : i >= j
             IN  SubSeq(s, a, b)

\* len(str.split()): the number of whitespace-separated words
SplitCount(s) ==
    Cardinality({i \in 1..Len(s) :
                    ~IsSpace(s[i]) /\ (i = 1 \/ IsSpace(s[i-1]))})

\* kw in s
Contains(s, kw) ==
    \E i \in 1..(Len(s) - Len(kw) + 1) : SubSeq(s, i, i + Len(kw) - 1) = kw

\* any(char.isdigit() for char in s)
HasDigit(s) == \E i \in 1..Len(s) : IsDigit(s[i])

HasAlpha(s) == \E i \in 1..Len(s) : IsAlpha(s[i])

(***************************************************************************)
(* OCRService.price_pattern   \$?(\d+[.,]\d{2})                            *)
(***************************************************************************)
\* The first index >= i of s that holds no digit (Len(s)+1 when the digits
\* run to the end): where a greedy \d+ started at i stops.
DigitRunEnd(s, i) ==
    LET stops == {j \in i..Len(s) : ~IsDigit(s[j])}
    IN  IF stops = {} THEN Len(s) + 1
        ELSE CHOOSE j \in stops : \A k \in stops : j <= k

\* \d+[.,]\d{2} matched at i: the index after the match, 0 when it fails.
\* The greedy \d+ cannot usefully backtrack: a shorter run is followed by a
\* digit, never by the separator.
NumberEnd(s, i) ==
    LET j == DigitRunEnd(s, i)
    IN  IF /\ i <= Len(s)
           /\ j > i
           /\ j + 2 <= Len(s)
           /\ s[j] \in {".", ","}
           /\ IsDigit(s[j+1])
           /\ IsDigit(s[j+2])
        THEN j + 3
        ELSE 0

\* price_pattern matched at i: [from, to) of the whole match and the start
\* of group 1; to = 0 when there is no match at i.
PriceMatchAt(s, i) ==
    IF i <= Len(s) /\ s[i] = "$" /\ NumberEnd(s, i + 1) # 0
    THEN [grp |-> i + 1, to |-> NumberEnd(s, i + 1)]
    ELSE [grp |-> i, to |-> NumberEnd(s, i)]

\* price_pattern.findall(s), scanning from index i: the group-1 strings of
\* the leftmost non-overlapping matches.
RECURSIVE FindAllFrom(_, _)
FindAllFrom(s, i) ==
    IF i > Len(s) THEN <<>>
    ELSE LET m == PriceMatchAt(s, i)
         IN  IF m.to # 0
             THEN <<SubSeq(s, m.grp, m.to - 1)>> \o FindAllFrom(s, m.to)
             ELSE FindAllFrom(s, i + 1)

FindAllPrices(s) == FindAllFrom(s, 1)

\* re.sub(price_pattern, '', s), scanning from index i
RECURSIVE SubPricesFrom(_, _)
SubPricesFrom(s, i) ==
    IF i > Len(s) THEN <<>>
    ELSE LET m == PriceMatchAt(s, i)
         IN  IF m.to # 0
             THEN SubPricesFrom(s, m.to)
             ELSE <<s[i]>> \o SubPricesFrom(s, i + 1)

SubPrices(s) == SubPricesFrom(s, 1)

\* int(digits)
RECURSIVE IntOf(_)
IntOf(d) ==
    IF d = <<>> THEN 0
    ELSE 10 * IntOf(SubSeq(d, 1, Len(d) - 1)) + DigitVal(d[Len(d)])

\* float(p.replace(',', '.')) for a group-1 string of price_pattern, in cents
PriceValue(p) ==
    100 * IntOf(SubSeq(p, 1, Len(p) - 3)) + IntOf(SubSeq(p, Len(p) - 1, Len(p)))

(***************************************************************************)
(* OCRService.item_patterns                                                *)
(***************************************************************************)
\* The index of the last character of the longest prefix of s made of
\* letters and whitespace only: all that ([A-Za-z\s]+) can cover.
NamePrefixEnd(s) ==
    LET stops == {j \in 1..Len(s) : ~(IsAlpha(s[j]) \/ IsSpace(s[j]))}
    IN  IF stops = {} THEN Len(s)
        ELSE (CHOOSE j \in stops : \A k \in stops : j <= k) - 1

\* The first index >= i of s that holds no whitespace: where \s* stops.
SkipSpaces(s, i) ==
    LET stops == {j \in i..Len(s) : ~IsSpace(s[j])}
    IN  IF stops = {} THEN Len(s) + 1
        ELSE CHOOSE j \in stops : \A k \in stops : j <= k

\* item_patterns[0]   ^([A-Za-z\s]+)\s+(\d+[.,]\d{2})$   on a stripped line:
\* the groups, or None.  The greedy name group gives back exactly one
\* whitespace character to \s+.
ItemPattern1(s) ==
    LET k == NamePrefixEnd(s)
    IN  IF /\ k >= 2
           /\ IsSpace(s[k])
           /\ NumberEnd(s, k + 1) = Len(s) + 1
        THEN Some(<<SubSeq(s, 1, k - 1), SubSeq(s, k + 1, Len(s))>>)
        ELSE None

\* item_patterns[1]
\*   ^([A-Za-z\s]+)\s+(\d+)\s*x\s*(\d+[.,]\d{2})\s*=?\s*(\d+[.,]\d{2})$
ItemPattern2(s) ==
    LET k  == NamePrefixEnd(s)
        q  == DigitRunEnd(s, k + 1)
        x  == SkipSpaces(s, q)
        u  == SkipSpaces(s, x + 1)
        ue == NumberEnd(s, u)
        e  == SkipSpaces(s, ue)
        t  == SkipSpaces(s, IF e <= Len(s) /\ s[e] = "=" THEN e + 1 ELSE e)
    IN  IF /\ k >= 2
           /\ IsSpace(s[k])
           /\ q > k + 1
           /\ x <= Len(s)
           /\ s[x] = "x"
           /\ ue # 0
           /\ NumberEnd(s, t) = Len(s) + 1
        THEN Some(<<SubSeq(s, 1, k - 1), SubSeq(s, k + 1, q - 1),
                    SubSeq(s, u, ue - 1), SubSeq(s, t, Len(s))>>)
        ELSE None

Item(name, quantity, unit_price, total_price) ==
    [name |-> name, quantity |-> quantity,
     unit_price |-> unit_price, total_price |-> total_price]

\* The fallback of _extract_item_from_line: any price on a line of two or
\* more words, the name being the line with every price removed.
ItemFromPrices(line) ==
    LET prices    == FindAllPrices(line)
        item_name == Strip(SubPrices(line))
    IN  IF prices # <<>> /\ SplitCount(line) > 1 /\ Len(item_name) > 2
        THEN Some(Item(item_name, 1, PriceValue(prices[Len(prices)]),
                       PriceValue(prices[Len(prices)])))
        ELSE None

\* OCRService._extract_item_from_line
ExtractItemFromLine(line) ==
    LET m1 == ItemPattern1(Strip(line))
        m2 == ItemPattern2(Strip(line))
    IN  IF m1.some
        THEN Some(Item(Strip(m1.val[1]), 1, PriceValue(m1.val[2]), PriceValue(m1.val[2])))
        ELSE IF m2.some
        THEN Some(Item(Strip(m2.val[1]), IntOf(m2.val[2]),
                       PriceValue(m2.val[3]), PriceValue(m2.val[4])))
        ELSE ItemFromPrices(line)

(***************************************************************************)
(* OCRService._extract_total                                               *)
(***************************************************************************)
total_keywords ==
    << <<"t","o","t","a","l">>, <<"s","u","m">>, <<"a","m","o","u","n","t">>,
       <<"g","e","s","a","m","t">>, <<"s","u","m","a">> >>

\* any(keyword in line_lower for keyword in total_keywords)
HasTotalKeyword(line) ==
    \E i \in 1..Len(total_keywords) : Contains(Lower(line), total_keywords[i])

\* Variant: the lines scanned top-down, so the first keyword line wins.
TotalFromFirstKeywordLine(ls, i) ==
    LET hits == {j \in 1..i : HasTotalKeyword(ls[j]) /\ FindAllPrices(ls[j]) # <<>>}
    IN  IF hits = {} THEN None
        ELSE LET j == CHOOSE j \in hits : \A k \in hits : j <= k
             IN  Some(PriceValue(FindAllPrices(ls[j])[Len(FindAllPrices(ls[j]))]))

\* The loop over reversed(lines), from line i down: the last price of the
\* first line met that has a keyword and a price.
RECURSIVE TotalFromKeywordLine(_, _)
TotalFromKeywordLine(ls, i) ==
    IF i = 0 THEN None
    ELSE LET prices == FindAllPrices(ls[i])
         IN  IF HasTotalKeyword(ls[i]) /\ prices # <<>>
             THEN Some(PriceValue(prices[Len(prices)]))
             ELSE TotalFromKeywordLine(ls, i - 1)

\* all_prices: every price of every line
AllPrices(ls) ==
    {PriceValue(p) : p \in UNION {Range(FindAllPrices(ls[i])) : i \in 1..Len(ls)}}

ExtractTotal(ls) ==
    LET byKeyword == TotalFromKeywordLine(ls, Len(ls))
        all       == AllPrices(ls)
    IN  IF byKeyword.some THEN byKeyword
        ELSE IF all # {} THEN Some(CHOOSE p \in all : \A r \in all : p >= r)
        ELSE None

(***************************************************************************)
(* OCRService._extract_date                                                *)
(***************************************************************************)
\* How many digits a greedy \d{..,max} takes at i
DigitsUpTo(s, i, max) ==
    LET n == DigitRunEnd(s, i) - i IN IF n > max THEN max ELSE n

\* (\d{1,2}[./]\d{1,2}[./]\d{2,4}) matched at i: the index after the match, or 0
DateEnd1(s, i) ==
    LET a  == DigitsUpTo(s, i, 2)
        bi == i + a + 1
        b  == DigitsUpTo(s, bi, 2)
        ci == bi + b + 1
        c  == DigitsUpTo(s, ci, 4)
    IN  IF /\ i <= Len(s) /\ a >= 1
           /\ i + a <= Len(s) /\ s[i + a] \in {".", "/"}
           /\ b >= 1
           /\ bi + b <= Len(s) /\ s[bi + b] \in {".", "/"}
           /\ c >= 2
        THEN ci + c ELSE 0

\* (\d{2,4}[-]\d{1,2}[-]\d{1,2}) matched at i: the index after the match, or 0
DateEnd2(s, i) ==
    LET a  == DigitsUpTo(s, i, 4)
        bi == i + a + 1
        b  == DigitsUpTo(s, bi, 2)
        ci == bi + b + 1
        c  == DigitsUpTo(s, ci, 2)
    IN  IF /\ i <= Len(s) /\ a >= 2
           /\ i + a <= Len(s) /\ s[i + a] = "-"
           /\ b >= 1
           /\ bi + b <= Len(s) /\ s[bi + b] = "-"
           /\ c >= 1
        THEN ci + c ELSE 0

\* pattern.search over the text: the leftmost match, line by line (no
\* pattern can match across a newline).  n selects the pattern.
DateEnd(n, s, i) == IF n = 1 THEN DateEnd1(s, i) ELSE DateEnd2(s, i)

RECURSIVE DateSearch(_, _, _, _)
DateSearch(n, t, l, i) ==
    IF l > Len(t) THEN None
    ELSE IF i > Len(t[l]) THEN DateSearch(n, t, l + 1, 1)
    ELSE IF DateEnd(n, t[l], i) # 0
         THEN Some(SubSeq(t[l], i, DateEnd(n, t[l], i) - 1))
         ELSE DateSearch(n, t, l, i + 1)

ExtractDate(t) ==
    IF DateSearch(1, t, 1, 1).some THEN DateSearch(1, t, 1, 1)
    ELSE DateSearch(2, t, 1, 1)

(***************************************************************************)
(* OCRService._parse_receipt_text                                          *)
(***************************************************************************)
\* lines[:5]
StoreWindow == 5

\* [line.strip() for line in text.split('\n') if line.strip()]
RECURSIVE NonEmptyLines(_)
NonEmptyLines(t) ==
    IF t = <<>> THEN <<>>
    ELSE IF Strip(Head(t)) = <<>> THEN NonEmptyLines(Tail(t))
    ELSE <<Strip(Head(t))>> \o NonEmptyLines(Tail(t))

\* Variant: the dict starts with no total at all.
InitialResultNullTotal ==
    [items |-> <<>>, total |-> None, store_name |-> None,
     date |-> None, tax |-> Some(0)]

InitialResult ==
    [items |-> <<>>, total |-> Some(0), store_name |-> None,
     date |-> None, tax |-> Some(0)]

\* Variant: every line is looked at, not only lines[:5].
RECURSIVE StoreNameAnyLine(_, _)
StoreNameAnyLine(ls, i) ==
    IF i > Len(ls) THEN None
    ELSE IF Len(ls[i]) > 3 /\ ~HasDigit(ls[i]) THEN Some(ls[i])
    ELSE StoreNameAnyLine(ls, i + 1)

\* The loop over enumerate(lines[:5]), from line i on
RECURSIVE StoreNameFrom(_, _)
StoreNameFrom(ls, i) ==
    IF i > Len(ls) \/ i > StoreWindow THEN None
    ELSE IF Len(ls[i]) > 3 /\ ~HasDigit(ls[i]) THEN Some(ls[i])
    ELSE StoreNameFrom(ls, i + 1)

\* The loop appending every line's item to result['items']
RECURSIVE ItemsOf(_)
ItemsOf(ls) ==
    IF ls = <<>> THEN <<>>
    ELSE LET item_data == ExtractItemFromLine(Head(ls))
         IN  (IF item_data.some THEN <<item_data.val>> ELSE <<>>) \o ItemsOf(Tail(ls))

\* The body of _parse_receipt_text: its locals `lines` and `total` and the
\* dict it returns.  `if total: result['total'] = total` leaves the initial
\* 0.0 in place when total is None or 0.0, both falsy.
ParseLocals(t) ==
    LET ls == NonEmptyLines(t)
    IN  LET tt == ExtractTotal(ls)
        IN  [lines  |-> ls,
             total  |-> tt,
             result |-> [InitialResult EXCEPT
                            !.store_name = StoreNameFrom(ls, 1),
                            !.items      = ItemsOf(ls),
                            !.total      = IF tt.some /\ tt.val # 0 THEN tt ELSE @,
                            !.date       = ExtractDate(t)]]

ParseReceiptText(t) == ParseLocals(t).result

(***************************************************************************)
(* Receipt texts given to the parser                                       *)
(***************************************************************************)
MaxLines == 3      \* longest text built freely from ReceiptLines
MaxExtra == 1      \* lines a header text has beyond the store-name window

L_SuperMart == <<"S","u","p","e","r","M","a","r","t">>
L_Apples    == <<"A","p","p","l","e","s"," ","2","k","g"," ","5",".","0","0">>
L_Milk      == <<"M","i","l","k"," ","1","L"," ","3",".","5","0">>
L_Total     == <<"T","o","t","a","l"," ","8",".","5","0">>
L_Tax       == <<"T","a","x"," ","0",".","6","0">>
L_Digits    == <<"1","2","3"," ","4",".","5","0">>
L_MilkTimes == <<"M","i","l","k"," ","2"," ","x"," ","1",".","5","0"," ","3",".","0","0">>
L_TOTAL2    == <<"T","O","T","A","L"," ","9",".","2","5"," ","1",".","0","0">>
L_AmountDue == <<"A","m","o","u","n","t"," ","d","u","e">>
L_Blank     == <<" "," ">>
L_Date      == <<"1","2","/","0","5","/","2","0","2","4">>
L_Short     == <<"a","b","c"," ">>

ReceiptLines ==
    {L_SuperMart, L_Apples, L_Milk, L_Total, L_Tax, L_Digits, L_MilkTimes,
     L_TOTAL2, L_AmountDue, L_Blank, L_Date, L_Short}

\* Header lines: empty, with a digit, and two store names
HeaderLines == {<<>>, <<"A","1">>, <<"S","h","o","p">>, <<"M","a","r","t">>}

\* The item grammar  <name> <symbol>?<price>
ItemNames    == {<<"A","b">>, <<"M","i","l","k">>}
PriceSymbols == {<<>>, <<"$">>, <<EUR>>, <<GBP>>, <<JPY>>}
PriceTokens  == {<<"5",".","0","0">>, <<"3",",","5","0">>}
GrammarLine(n, y, p) == n \o <<" ">> \o y \o p

SeqsOf(S, lo, hi) == UNION {[1..n -> S] : n \in lo..hi}

Scenario1Text == <<L_SuperMart, L_Apples, L_Milk, L_Total>>
EmptyText     == << <<>> >>

Texts ==
    SeqsOf(ReceiptLines, 1, MaxLines)
    \cup SeqsOf(HeaderLines, StoreWindow + MaxExtra, StoreWindow + MaxExtra)
    \cup {<<GrammarLine(n, y, p)>> : n \in ItemNames, y \in PriceSymbols, p \in PriceTokens}
    \cup {Scenario1Text, EmptyText}

(***************************************************************************)
(* SpecOCR: OCRService._parse_receipt_text on one text                     *)
(***************************************************************************)
DbIdle ==
    /\ users = {} /\ receipts = <<>> /\ products = <<>> /\ receipt_items = <<>>
    /\ reply = ""
MlIdle ==
    /\ purchases = <<>> /\ now = 0
    /\ requester = 0 /\ patterns = <<>> /\ suggestions = <<>>
\* No function has been called on its own
NoCall   == [fn |-> "none"]
NoReturn == [returned |-> FALSE]
FnIdle ==
    /\ call = NoCall /\ ret = NoReturn
\* AIService and CacheService before any use: no AI client, no Redis
\* connection, nothing cached
AiIdle ==
    /\ ai_enabled = FALSE /\ redis_client = FALSE
    /\ redis_db = <<>> /\ memory_cache = <<>>
    /\ clock = 0 /\ stored_at = <<>> /\ dietary_preferences = <<>>
\* SmartShopBot before any update: no user_data, nothing sent, no file
BotIdle ==
    /\ user_data = <<>> /\ sent = <<>> /\ temp_files = <<>> /\ tasks = <<>>
\* No shopping list yet
ListIdle ==
    /\ shopping_lists = <<>> /\ shopping_list_items = <<>>
SvcIdle == AiIdle /\ BotIdle /\ ListIdle
OcrIdle ==
    /\ text = EmptyText /\ pc = "start" /\ lines = <<>> /\ total = None
    /\ result = InitialResult

InitOCR ==
    /\ text \in Texts
    /\ pc = "start"
    /\ lines = <<>>
    /\ total = None
    /\ result = InitialResult
    /\ DbIdle
    /\ SvcIdle
    /\ MlIdle
    /\ FnIdle

\* One call of OCRService._parse_receipt_text(text)
ParseText ==
    /\ pc = "start"
    /\ pc' = "done"
    /\ \E p \in {ParseLocals(text)} :
          /\ lines' = p.lines
          /\ total' = p.total
          /\ result' = p.result
    /\ UNCHANGED <<text, dbVars, mlVars, fnVars, svcVars>>

NextOCR == ParseText

SpecOCR == InitOCR /\ [][NextOCR]_vars

(***************************************************************************)
(* Properties of the receipt parser (checked under SpecOCR)                *)
(***************************************************************************)
MaxOf(S) == CHOOSE p \in S : \A r \in S : p >= r
MinOf(S) == CHOOSE p \in S : \A r \in S : p <= r
LastOf(q) == q[Len(q)]

\* Indices of the parsed lines that hold a total keyword and a price
KeywordPriceLines == {i \in 1..Len(lines) :
                        HasTotalKeyword(lines[i]) /\ FindAllPrices(lines[i]) # <<>>}

\* The value of every price of every parsed line
PricesAnywhere ==
    UNION {{PriceValue(FindAllPrices(lines[i])[j]) :
                j \in 1..Len(FindAllPrices(lines[i]))} : i \in 1..Len(lines)}

\* C1: _extract_total returns the last price of the LAST line that has a
\* total keyword and a price; only without such a line, the maximum of all
\* prices of the text; and nothing when the text has no price.
C1_TotalResolution ==
    pc = "done" =>
        IF KeywordPriceLines # {}
        THEN total = Some(PriceValue(LastOf(FindAllPrices(lines[MaxOf(KeywordPriceLines)]))))
        ELSE IF PricesAnywhere # {}
        THEN total = Some(MaxOf(PricesAnywhere))
        ELSE total = None

\* C1 witness: two keyword lines with different amounts, and a larger price
\* elsewhere that the keyword line overrides.
C1_Witness ==
    /\ pc = "done"
    /\ Cardinality(KeywordPriceLines) >= 2
    /\ \E i \in KeywordPriceLines :
          PriceValue(LastOf(FindAllPrices(lines[i]))) # total.val
    /\ MaxOf(PricesAnywhere) > total.val

A_Apples == <<"A","p","p","l","e","s">>
A_Milk   == <<"M","i","l","k">>
A_kg     == <<"k","g">>
A_l      == <<"l">>

\* C2: the receipt SuperMart / Apples 2kg 5.00 / Milk 1L 3.50 / Total 8.50
\* parses to store SuperMart, exactly the items (Apples, 2, kg, 5.00) and
\* (Milk, 1, l, 3.50) in this order, and grand total 8.50.
C2_Scenario1 ==
    (pc = "done" /\ text = Scenario1Text) =>
        /\ result.store_name = Some(L_SuperMart)
        /\ result.total = Some(850)
        /\ Len(result.items) = 2
        /\ result.items[1].name = A_Apples
        /\ result.items[1].quantity = 2
        /\ result.items[1].total_price = 500
        /\ "unit" \in DOMAIN result.items[1] /\ result.items[1].unit = A_kg
        /\ result.items[2].name = A_Milk
        /\ result.items[2].quantity = 1
        /\ result.items[2].total_price = 350
        /\ "unit" \in DOMAIN result.items[2] /\ result.items[2].unit = A_l

Denylist ==
    { <<"t","o","t","a","l">>, <<"s","u","b","t","o","t","a","l">>, <<"t","a","x">>,
      <<"c","h","a","n","g","e">>, <<"c","a","s","h">>, <<"c","a","r","d">>,
      <<"r","e","c","e","i","p","t">>, <<"t","h","a","n","k">>,
      <<"s","t","o","r","e">>, <<"a","d","d","r","e","s","s">> }

\* C3: no item the parser emits has a name without an alphabetic character
\* or a name that is a boilerplate word (total, subtotal, tax, ...).
C3_NoBoilerplateItems ==
    pc = "done" =>
        \A i \in 1..Len(result.items) :
            /\ HasAlpha(result.items[i].name)
            /\ Lower(result.items[i].name) \notin Denylist

\* C5 as stated: empty OCR text yields no items, a null grand total and a
\* null store name.
C5_EmptyTextNullTotal ==
    (pc = "done" /\ text = EmptyText) =>
        /\ result.items = <<>>
        /\ result.total = None
        /\ result.store_name = None

\* C5 as amended: empty OCR text yields no items, a null store name and the
\* numeric grand total 0.0 (the dict's default; _extract_total found none).
C5_EmptyTextZeroTotal ==
    (pc = "done" /\ text = EmptyText) =>
        /\ result.items = <<>>
        /\ total = None
        /\ result.total = Some(0)
        /\ result.store_name = None

C5_Witness == pc = "done" /\ text = EmptyText /\ result.items = <<>>

\* Among the raw lines of the text: the non-blank ones, and those of them
\* that are within the first 5 non-blank lines, hold no digit and are longer
\* than 3 characters once stripped.
NonBlankIdx == {i \in 1..Len(text) : Strip(text[i]) # <<>>}
RankOf(i) == Cardinality({j \in NonBlankIdx : j <= i})
QualifiesAsStore(i) == ~HasDigit(text[i]) /\ Len(Strip(text[i])) > 3
StoreCandidates == {i \in NonBlankIdx : RankOf(i) <= 5 /\ QualifiesAsStore(i)}

\* C6: the store name is the first of the first 5 non-empty lines that has
\* no digit and more than 3 characters, and is absent when none of the 5
\* qualifies, whatever the later lines are.
C6_StoreName ==
    pc = "done" =>
        IF StoreCandidates = {}
        THEN result.store_name = None
        ELSE result.store_name = Some(Strip(text[MinOf(StoreCandidates)]))

\* C6 witness: a sixth non-empty line qualifies and is not taken.
C6_Witness ==
    /\ pc = "done"
    /\ result.store_name = None
    /\ \E i \in NonBlankIdx : RankOf(i) > 5 /\ QualifiesAsStore(i)

\* C7: a line <name> <symbol>?<price>, the symbol one of $, EUR, GBP, JPY
\* or none, yields an item whose total_price is the value of the price.
C7_PriceAnySymbol ==
    \A n \in ItemNames, y \in PriceSymbols, p \in PriceTokens :
        (pc = "done" /\ text = <<GrammarLine(n, y, p)>>) =>
            /\ Len(result.items) = 1
            /\ result.items[1].total_price = PriceValue(p)

(***************************************************************************)
(* ReceiptHandler over the receipts database                               *)
(***************************************************************************)
MaxReceipts == 2   \* receipts rows the model lets the table hold

UserIds == {1, 2}

\* OCR texts of the photos sent to the bot
PhotoTexts == {<<L_SuperMart>>, <<L_Tax>>, <<L_Total, L_Tax, L_Tax>>}

\* Where a photo can fail before anything is parsed: nowhere, in the
\* download (get_file / download_as_bytearray raise), or inside
\* extract_text_from_receipt (the OCR engine raises).
PhotoFailures == {"none", "download", "ocr"}

\* The texts processing_msg is edited to, by outcome
ReplyOcrFailed    == "Failed to process receipt"
ReplySaveFailed   == "Failed to save receipt data"
ReplyProcessed    == "Receipt Processed Successfully"
ReplyError        == "An error occurred while processing your receipt"

\* The dict extract_text_from_receipt returns when it caught an exception
ErrorResult ==
    [items |-> <<>>, total |-> Some(0), store_name |-> None, date |-> None,
     raw_text |-> <<>>, error |-> TRUE]

\* extract_text_from_receipt, given what _parse_receipt_text returned: the
\* parsed dict with raw_text added, or the error dict when the OCR engine
\* raised (the engine's mean confidence only changes the wording of the
\* reply and is left out)
ExtractTextFromReceipt(t, parsed_data, failure) ==
    IF failure = "ocr" THEN ErrorResult
    ELSE [items |-> parsed_data.items, total |-> parsed_data.total,
          store_name |-> parsed_data.store_name, date |-> parsed_data.date,
          tax |-> parsed_data.tax, raw_text |-> t]

\* ReceiptHandler._categorize_product: the categories dict, in its order
ProductCategories ==
    << <<"fruits", <<<<"a","p","p","l","e">>, <<"b","a","n","a","n","a">>, <<"o","r","a","n","g","e">>, <<"g","r","a","p","e">>, <<"b","e","r","r","y">>, <<"l","e","m","o","n">>, <<"l","i","m","e">>>>>>,
       <<"vegetables", <<<<"c","a","r","r","o","t">>, <<"p","o","t","a","t","o">>, <<"o","n","i","o","n">>, <<"t","o","m","a","t","o">>, <<"l","e","t","t","u","c","e">>, <<"s","p","i","n","a","c","h">>>>>>,
       <<"dairy", <<<<"m","i","l","k">>, <<"c","h","e","e","s","e">>, <<"y","o","g","u","r","t">>, <<"b","u","t","t","e","r">>, <<"c","r","e","a","m">>, <<"e","g","g">>>>>>,
       <<"meat", <<<<"c","h","i","c","k","e","n">>, <<"b","e","e","f">>, <<"p","o","r","k">>, <<"f","i","s","h">>, <<"t","u","r","k","e","y">>, <<"l","a","m","b">>>>>>,
       <<"bakery", <<<<"b","r","e","a","d">>, <<"r","o","l","l">>, <<"b","a","g","e","l">>, <<"c","r","o","i","s","s","a","n","t">>, <<"m","u","f","f","i","n">>>>>>,
       <<"beverages", <<<<"j","u","i","c","e">>, <<"s","o","d","a">>, <<"w","a","t","e","r">>, <<"c","o","f","f","e","e">>, <<"t","e","a">>, <<"b","e","e","r">>, <<"w","i","n","e">>>>>>,
       <<"pantry", <<<<"r","i","c","e">>, <<"p","a","s","t","a">>, <<"f","l","o","u","r">>, <<"s","u","g","a","r">>, <<"s","a","l","t">>, <<"o","i","l">>, <<"s","a","u","c","e">>>>>> >>

RECURSIVE CategoryFrom(_, _)
CategoryFrom(name_lower, c) ==
    IF c > Len(ProductCategories) THEN "other"
    ELSE IF \E k \in 1..Len(ProductCategories[c][2]) :
                Contains(name_lower, ProductCategories[c][2][k])
         THEN ProductCategories[c][1]
         ELSE CategoryFrom(name_lower, c + 1)

CategorizeProduct(product_name) == CategoryFrom(Lower(product_name), 1)

\* db.query(Product).filter(Product.name.ilike('%' + name + '%')): the ids
\* of the products whose name contains the item's name, whatever the case
MatchingProducts(prods, name) ==
    {p \in 1..Len(prods) : Contains(Lower(prods[p].name), Lower(name))}

\* The loop over receipt_data['items'] in _save_receipt_to_db.  prods and
\* ritems are the committed rows, pending the receipt items added to the
\* session since the last commit.  A new product is committed at once, and
\* that commit carries the pending items with it.  For a product that
\* exists the code reads product.average_price, which the Product model does
\* not define: the AttributeError ends the call in `except`, and the
\* session is closed with its pending rows unsaved.
RECURSIVE SaveItems(_, _, _, _, _)
SaveItems(its, rid, prods, ritems, pending) ==
    IF its = <<>>
    THEN [ok |-> TRUE, products |-> prods, receipt_items |-> ritems \o pending]
    ELSE IF MatchingProducts(prods, Head(its).name) # {}
    THEN [ok |-> FALSE, products |-> prods, receipt_items |-> ritems]
    ELSE LET item_data == Head(its)
             product   == [name |-> item_data.name,
                           category |-> CategorizeProduct(item_data.name),
                           last_price |-> item_data.unit_price]
             receipt_item == [receipt_id |-> rid,
                              product_id |-> Len(prods) + 1,
                              item_name |-> item_data.name,
                              quantity |-> item_data.quantity,
                              unit_price |-> item_data.unit_price,
                              total_price |-> item_data.total_price]
         IN  SaveItems(Tail(its), rid, Append(prods, product),
                       ritems \o pending, <<receipt_item>>)

\* ReceiptHandler._save_receipt_to_db: the tables after the call and the
\* returned receipt id (None for an unknown user or after an exception).
\* The receipt row is committed before any item is looked at.
SaveReceiptToDb(user_id, receipt_data) ==
    IF user_id \notin users
    THEN [receipt_id |-> None, receipts |-> receipts, products |-> products,
          receipt_items |-> receipt_items]
    ELSE LET receipt == [user_id |-> user_id,
                         store_name |-> receipt_data.store_name,
                         total_amount |-> receipt_data.total.val,
                         raw_text |-> receipt_data.raw_text]
             rid   == Len(receipts) + 1
             saved == SaveItems(receipt_data.items, rid, products, receipt_items, <<>>)
         IN  [receipt_id |-> IF saved.ok THEN Some(rid) ELSE None,
              receipts |-> Append(receipts, receipt),
              products |-> saved.products,
              receipt_items |-> saved.receipt_items]

Init ==
    /\ OcrIdle
    /\ SvcIdle
    /\ users = {}
    /\ receipts = <<>>
    /\ products = <<>>
    /\ receipt_items = <<>>
    /\ reply = ""
    /\ MlIdle
    /\ FnIdle

\* /start: the user row is created when it does not exist
StartCommand(u) ==
    /\ u \notin users
    /\ users' = users \cup {u}
    /\ UNCHANGED <<ocrVars, receipts, products, receipt_items, reply, mlVars, fnVars, svcVars>>

\* ReceiptHandler.handle_photo for one photo of user u whose OCR text is t
HandlePhoto(u, t, failure) ==
    /\ Len(receipts) < MaxReceipts
    /\ UNCHANGED <<users, mlVars, fnVars, svcVars>>
    /\ IF failure = "download"
       THEN /\ reply' = ReplyError
            /\ UNCHANGED <<ocrVars, receipts, products, receipt_items>>
       ELSE \E p \in {ParseLocals(t)} :
            \E receipt_data \in {ExtractTextFromReceipt(t, p.result, failure)} :
            \E saved \in {SaveReceiptToDb(u, receipt_data)} :
                /\ text' = t
                /\ pc' = "done"
                /\ lines' = IF failure = "ocr" THEN <<>> ELSE p.lines
                /\ total' = IF failure = "ocr" THEN None ELSE p.total
                /\ result' = receipt_data
                /\ IF failure = "ocr"
                   THEN /\ reply' = ReplyOcrFailed
                        /\ UNCHANGED <<receipts, products, receipt_items>>
                   ELSE /\ receipts' = saved.receipts
                        /\ products' = saved.products
                        /\ receipt_items' = saved.receipt_items
                        /\ reply' = IF saved.receipt_id # None
                                    THEN ReplyProcessed ELSE ReplySaveFailed

Next ==
    \/ \E u \in UserIds : StartCommand(u)
    \/ \E u \in UserIds, t \in PhotoTexts, failure \in PhotoFailures : HandlePhoto(u, t, failure)

Spec == Init /\ [][Next]_vars

\* The outcome the caller is expected to report when no item was found
CouldNotExtract == "could not extract items"

\* C4: when the parser finds no item line in the photo of a registered user,
\* handle_photo reports a could-not-extract outcome and writes no Receipt,
\* Product or ReceiptItem row.
C4_NoItemsNothingPersisted ==
    [][\A u \in users, t \in PhotoTexts :
          (HandlePhoto(u, t, "none") /\ ParseReceiptText(t).items = <<>>) =>
              /\ reply' = CouldNotExtract
              /\ UNCHANGED <<receipts, products, receipt_items>>]_vars

(***************************************************************************)
(* Purchase history and suggestions                                        *)
(*                                                                         *)
(* Timestamps are clock ticks, TicksPerDay to the day; two statements run  *)
(* in the same tick read the same CURRENT_TIMESTAMP.  The scores are kept  *)
(* as exact fractions [n, d] in lowest terms where the code has floats.    *)
(***************************************************************************)
TicksPerDay  == 2   \* clock ticks in a day
MaxNow       == 2   \* the last tick the clock reaches
MaxPurchases == 4   \* rows the model lets the purchases table hold

\* The purchases users make: who buys, and the item dict's name and category
PurchaseUsers == {1, 2}
PurchaseKinds ==
    {[user_id |-> 1, name |-> "Milk",  category |-> "dairy"],
     [user_id |-> 1, name |-> "Milk",  category |-> "other"],
     [user_id |-> 2, name |-> "Milk",  category |-> "dairy"]}

RECURSIVE Gcd(_, _)
Gcd(a, b) == IF b = 0 THEN a ELSE Gcd(b, a % b)

\* The fraction n/d (d > 0) in lowest terms
Rat(n, d) ==
    LET g == Gcd(IF n < 0 THEN -n ELSE n, d)
    IN  [n |-> n \div g, d |-> d \div g]

RLt(a, b)  == a.n * b.d < b.n * a.d
RLe(a, b)  == a.n * b.d <= b.n * a.d
RAdd(a, b) == Rat(a.n * b.d + b.n * a.d, a.d * b.d)
RMul(a, b) == Rat(a.n * b.n, a.d * b.d)
RMin(a, b) == IF RLe(a, b) THEN a ELSE b
RMax(a, b) == IF RLe(b, a) THEN a ELSE b

\* timedelta.days of a non-negative difference of timestamps
Days(delta) == delta \div TicksPerDay

RECURSIVE SumOf(_, _)
SumOf(f, S) ==
    IF S = {} THEN 0
    ELSE LET x == CHOOSE y \in S : TRUE IN f[x] + SumOf(f, S \ {x})

\* WHERE user_id = $1 GROUP BY item_name, category: the row ids of a group
GroupOf(table, user_id, item_name, category) ==
    {i \in 1..Len(table) : /\ table[i].user_id = user_id
                           /\ table[i].item_name = item_name
                           /\ table[i].category = category}

\* The (item_name, category) pairs of the user's rows
GroupKeys(table, user_id) ==
    {<<table[i].item_name, table[i].category>> :
        i \in {j \in 1..Len(table) : table[j].user_id = user_id}}

\* Variant: HAVING COUNT(*) >= 1
HavingAny(count) == count >= 1

\* HAVING COUNT(*) > 1
Having(count) == count > 1

\* The select list for one group: COUNT(*), the mean over the group's rows
\* of (CURRENT_TIMESTAMP - purchase_date) in days, MAX and MIN of
\* purchase_date
PatternRow(table, current_timestamp, user_id, key) ==
    LET G   == GroupOf(table, user_id, key[1], key[2])
        age == [i \in G |-> current_timestamp - table[i].purchase_date]
    IN  [item_name      |-> key[1],
         category       |-> key[2],
         frequency      |-> Cardinality(G),
         avg_days_since |-> Rat(SumOf(age, G), Cardinality(G) * TicksPerDay),
         last_purchase  |-> MaxOf({table[i].purchase_date : i \in G}),
         first_purchase |-> MinOf({table[i].purchase_date : i \in G})]

\* DatabaseManager.get_purchase_patterns: every order the rows can come
\* back in.  ORDER BY frequency DESC leaves rows of equal frequency in any
\* order.
GetPurchasePatterns(table, current_timestamp, user_id) ==
    LET rows == {PatternRow(table, current_timestamp, user_id, key) :
                    key \in {k \in GroupKeys(table, user_id) :
                        Having(Cardinality(GroupOf(table, user_id, k[1], k[2])))}}
        n    == Cardinality(rows)
    IN  {q \in [1..n -> rows] :
            /\ \A i, j \in 1..n : i # j => q[i] # q[j]
            /\ \A i, j \in 1..n : i < j => q[i].frequency >= q[j].frequency}

\* Variant: the time score not clamped to [0, 1]
ConfidenceUnclampedTime(frequency, days_since_last, avg_days_since, purchases_per_week) ==
    LET frequency_score == RMin(Rat(frequency, 10), Rat(1, 1))
        time_score ==
            IF avg_days_since.n > 0
            THEN Rat(days_since_last * avg_days_since.d, avg_days_since.n)
            ELSE Rat(1, 2)
        regularity_score ==
            IF purchases_per_week.n > 0
            THEN RMin(purchases_per_week, Rat(1, 1))
            ELSE Rat(1, 10)
        confidence ==
            RAdd(RAdd(RMul(frequency_score, Rat(4, 10)),
                      RMul(time_score, Rat(4, 10))),
                 RMul(regularity_score, Rat(2, 10)))
        decayed ==
            IF days_since_last > 60 THEN RMul(confidence, Rat(5, 10))
            ELSE IF days_since_last > 30 THEN RMul(confidence, Rat(8, 10))
            ELSE confidence
    IN  RMin(decayed, Rat(1, 1))

\* Variant: the decay taken from day 30 and day 60 on
ConfidenceDecayInclusive(frequency, days_since_last, avg_days_since, purchases_per_week) ==
    LET frequency_score == RMin(Rat(frequency, 10), Rat(1, 1))
        time_score ==
            IF avg_days_since.n > 0
            THEN RMax(Rat(0, 1),
                      RMin(Rat(1, 1),
                           Rat(days_since_last * avg_days_since.d, avg_days_since.n)))
            ELSE Rat(1, 2)
        regularity_score ==
            IF purchases_per_week.n > 0
            THEN RMin(purchases_per_week, Rat(1, 1))
            ELSE Rat(1, 10)
        confidence ==
            RAdd(RAdd(RMul(frequency_score, Rat(4, 10)),
                      RMul(time_score, Rat(4, 10))),
                 RMul(regularity_score, Rat(2, 10)))
        decayed ==
            IF days_since_last >= 60 THEN RMul(confidence, Rat(5, 10))
            ELSE IF days_since_last >= 30 THEN RMul(confidence, Rat(8, 10))
            ELSE confidence
    IN  RMin(decayed, Rat(1, 1))

\* MLSuggestions._calculate_suggestion_confidence
CalculateSuggestionConfidence(frequency, days_since_last, avg_days_since, purchases_per_week) ==
    LET frequency_score == RMin(Rat(frequency, 10), Rat(1, 1))
        time_score ==
            IF avg_days_since.n > 0
            THEN RMax(Rat(0, 1),
                      RMin(Rat(1, 1),
                           Rat(days_since_last * avg_days_since.d, avg_days_since.n)))
            ELSE Rat(1, 2)
        regularity_score ==
            IF purchases_per_week.n > 0
            THEN RMin(purchases_per_week, Rat(1, 1))
            ELSE Rat(1, 10)
        confidence ==
            RAdd(RAdd(RMul(frequency_score, Rat(4, 10)),
                      RMul(time_score, Rat(4, 10))),
                 RMul(regularity_score, Rat(2, 10)))
        decayed ==
            IF days_since_last > 60 THEN RMul(confidence, Rat(5, 10))
            ELSE IF days_since_last > 30 THEN RMul(confidence, Rat(8, 10))
            ELSE confidence
    IN  RMin(decayed, Rat(1, 1))

\* The dict generate_shopping_suggestions builds for one pattern
SuggestionOf(pattern, current_time) ==
    LET frequency       == pattern.frequency
        days_since_last == Days(current_time - pattern.last_purchase)
        total_days      == Days(current_time - pattern.first_purchase)
        purchases_per_week ==
            IF total_days > 0 THEN Rat(frequency * 7, total_days) ELSE Rat(0, 1)
    IN  [name            |-> pattern.item_name,
         confidence      |-> CalculateSuggestionConfidence(
                                 frequency, days_since_last,
                                 pattern.avg_days_since, purchases_per_week),
         frequency       |-> frequency,
         days_since_last |-> days_since_last,
         avg_interval    |-> pattern.avg_days_since]

ConfidenceThreshold == Rat(3, 10)

\* Variant: `if confidence >= 0.3`
QualifiesAtThreshold(confidence) == RLe(ConfidenceThreshold, confidence)

\* `if confidence > 0.3`
Qualifies(confidence) == RLt(ConfidenceThreshold, confidence)

\* suggestions[category] after the loop over the patterns
RECURSIVE Appended(_, _, _, _)
Appended(pats, current_time, category, i) ==
    IF i = 0 THEN <<>>
    ELSE LET before     == Appended(pats, current_time, category, i - 1)
             suggestion == SuggestionOf(pats[i], current_time)
         IN  IF pats[i].category = category /\ Qualifies(suggestion.confidence)
             THEN Append(before, suggestion)
             ELSE before

\* Variant: the list left in the order of the patterns
LeftUnsorted(q) == q

\* list.sort(key=confidence, reverse=True): descending and stable
RECURSIVE SortByConfidence(_)
SortByConfidence(q) ==
    IF q = <<>> THEN <<>>
    ELSE LET sorted == SortByConfidence(SubSeq(q, 1, Len(q) - 1))
             x      == q[Len(q)]
             k      == Cardinality({j \in 1..Len(sorted) :
                                      RLe(x.confidence, sorted[j].confidence)})
         IN  SubSeq(sorted, 1, k) \o <<x>> \o SubSeq(sorted, k + 1, Len(sorted))

SuggestionLimit == 5

\* MLSuggestions.generate_shopping_suggestions, given the rows
\* get_purchase_patterns returned: a dict from category to its list, with a
\* key for each category something was appended to
GenerateShoppingSuggestions(pats, current_time) ==
    LET categories == {pats[i].category : i \in
                         {j \in 1..Len(pats) :
                            Qualifies(SuggestionOf(pats[j], current_time).confidence)}}
    IN  IF pats = <<>> \/ categories = {} THEN <<>>
        ELSE [category \in categories |->
                LET sorted == SortByConfidence(
                                  Appended(pats, current_time, category, Len(pats)))
                IN  SubSeq(sorted, 1, IF Len(sorted) < SuggestionLimit
                                      THEN Len(sorted) ELSE SuggestionLimit)]

InitML ==
    /\ OcrIdle
    /\ SvcIdle
    /\ DbIdle
    /\ MlIdle
    /\ FnIdle

\* DatabaseManager.add_purchase: purchase_date defaults to CURRENT_TIMESTAMP
AddPurchase(kind) ==
    /\ Len(purchases) < MaxPurchases
    /\ purchases' = Append(purchases,
                           [user_id       |-> kind.user_id,
                            item_name     |-> kind.name,
                            category      |-> kind.category,
                            purchase_date |-> now])
    /\ UNCHANGED <<now, requester, patterns, suggestions, ocrVars, dbVars, fnVars, svcVars>>

\* Time passes
Tick ==
    /\ now < MaxNow
    /\ now' = now + 1
    /\ UNCHANGED <<purchases, requester, patterns, suggestions, ocrVars, dbVars, fnVars, svcVars>>

\* MLSuggestions.generate_shopping_suggestions(user_id)
GenerateSuggestions(user_id) ==
    /\ requester' = user_id
    /\ \E rows \in GetPurchasePatterns(purchases, now, user_id) :
          /\ patterns' = rows
          /\ suggestions' = GenerateShoppingSuggestions(rows, now)
    /\ UNCHANGED <<purchases, now, ocrVars, dbVars, fnVars, svcVars>>

NextML ==
    \/ \E kind \in PurchaseKinds : AddPurchase(kind)
    \/ Tick
    \/ \E user_id \in PurchaseUsers : GenerateSuggestions(user_id)

SpecML == InitML /\ [][NextML]_vars

\* Number of the user's purchase records of one (item_name, category) pair
RecordsOf(u, item_name, category) ==
    Cardinality(GroupOf(purchases, u, item_name, category))

\* Number of rows of a pattern list for one (item_name, category) pair
RowsFor(pats, item_name, category) ==
    Cardinality({i \in 1..Len(pats) : /\ pats[i].item_name = item_name
                                      /\ pats[i].category = category})

\* The state is the one a generate_shopping_suggestions call made at this
\* moment leaves
JustGenerated ==
    /\ requester # 0
    /\ patterns \in GetPurchasePatterns(purchases, now, requester)
    /\ suggestions = GenerateShoppingSuggestions(patterns, now)

\* C8: the pattern query returns exactly one pattern for each (item_name,
\* category) pair of the user with at least 2 purchase records, none for a
\* pair with 1 record and none for anything else, so every suggestion is for
\* a pair bought at least twice.
C8_PatternsNeedTwoRecords ==
    [][\A u \in PurchaseUsers : GenerateSuggestions(u) =>
          /\ \A k \in GroupKeys(purchases, u) :
                RowsFor(patterns', k[1], k[2]) =
                    IF RecordsOf(u, k[1], k[2]) >= 2 THEN 1 ELSE 0
          /\ \A i \in 1..Len(patterns') :
                <<patterns'[i].item_name, patterns'[i].category>>
                    \in GroupKeys(purchases, u)
          /\ \A c \in DOMAIN suggestions' : \A j \in 1..Len(suggestions'[c]) :
                RecordsOf(u, suggestions'[c][j].name, c) >= 2]_vars

\* C8 witness: the user has a pair bought once beside a pair bought twice,
\* and the call returned a suggestion.
C8_Witness ==
    /\ JustGenerated
    /\ suggestions # <<>>
    /\ \E k \in GroupKeys(purchases, requester) :
          RecordsOf(requester, k[1], k[2]) = 1
    /\ \E k \in GroupKeys(purchases, requester) :
          RecordsOf(requester, k[1], k[2]) >= 2

\* The purchases of the history "Milk bought 8 times at equal spacing over
\* 56 days, the last purchase 7 days ago"
ScenarioTable ==
    [i \in 1..8 |-> [user_id |-> 1, item_name |-> "Milk", category |-> "dairy",
                     purchase_date |-> (i - 1) * 8 * TicksPerDay]]
ScenarioNow == (56 + 7) * TicksPerDay

\* C9: for every pattern (frequency > 1) the average handed to the scorer
\* is (last purchase - first purchase, in days) / (frequency - 1); for the
\* 8-purchase history it is 8 and days_since_last is 7.
C9_AverageInterval ==
    [][\A u \in PurchaseUsers : GenerateSuggestions(u) =>
          /\ \A i \in 1..Len(patterns') :
                patterns'[i].frequency > 1 =>
                    patterns'[i].avg_days_since =
                        Rat(patterns'[i].last_purchase - patterns'[i].first_purchase,
                            (patterns'[i].frequency - 1) * TicksPerDay)
          /\ \A q \in GetPurchasePatterns(ScenarioTable, ScenarioNow, 1) :
                /\ Len(q) = 1
                /\ q[1].avg_days_since = Rat(8, 1)
                /\ SuggestionOf(q[1], ScenarioNow).days_since_last = 7]_vars

\* C10: every returned suggestion has confidence > 0.3, and a pattern whose
\* confidence is 0.3 or less is not in the returned lists.
C10_OnlyAboveThreshold ==
    [][\A u \in PurchaseUsers : GenerateSuggestions(u) =>
          /\ \A c \in DOMAIN suggestions' : \A j \in 1..Len(suggestions'[c]) :
                RLt(Rat(3, 10), suggestions'[c][j].confidence)
          /\ \A i \in 1..Len(patterns') :
                RLe(SuggestionOf(patterns'[i], now).confidence, Rat(3, 10)) =>
                    \A c \in DOMAIN suggestions' : \A j \in 1..Len(suggestions'[c]) :
                        ~ (c = patterns'[i].category
                           /\ suggestions'[c][j].name = patterns'[i].item_name)]_vars

\* C10 witness: one pattern scores exactly 0.3 and is left out while another
\* pattern of the same call is returned.
C10_Witness ==
    /\ JustGenerated
    /\ suggestions # <<>>
    /\ \E i \in 1..Len(patterns) :
          /\ SuggestionOf(patterns[i], now).confidence = Rat(3, 10)
          /\ \A c \in DOMAIN suggestions : \A j \in 1..Len(suggestions[c]) :
                ~ (c = patterns[i].category
                   /\ suggestions[c][j].name = patterns[i].item_name)

(***************************************************************************)
(* generate_shopping_suggestions over arbitrary pattern lists              *)
(***************************************************************************)
MaxPatterns == 6   \* rows get_purchase_patterns hands to one call

\* item_name of the i-th row: the rows of one call have distinct names
PatternNames ==
    <<"Milk", "Cheese", "Yogurt", "Butter", "Cream", "Eggs", "Bread", "Rice">>

\* The clock of the call, 10 days after the oldest purchase
SuggestNow == 10 * TicksPerDay

\* What a row can hold beside its name.  With the clock at SuggestNow the
\* scores are 1, 9/25, 7/25 and 3/5.
PatternKinds ==
    {[category |-> "dairy", frequency |-> 10, avg_days_since |-> Rat(7, 1),
      last_purchase |-> 3 * TicksPerDay, first_purchase |-> 0],
     [category |-> "dairy", frequency |-> 2, avg_days_since |-> Rat(35, 1),
      last_purchase |-> 3 * TicksPerDay, first_purchase |-> 0],
     [category |-> "dairy", frequency |-> 2, avg_days_since |-> Rat(5, 1),
      last_purchase |-> SuggestNow, first_purchase |-> 0],
     [category |-> "other", frequency |-> 5, avg_days_since |-> Rat(14, 1),
      last_purchase |-> 3 * TicksPerDay, first_purchase |-> 0]}

PatternLists ==
    UNION {{[i \in 1..n |->
                [item_name      |-> PatternNames[i],
                 category       |-> kinds[i].category,
                 frequency      |-> kinds[i].frequency,
                 avg_days_since |-> kinds[i].avg_days_since,
                 last_purchase  |-> kinds[i].last_purchase,
                 first_purchase |-> kinds[i].first_purchase]] :
              kinds \in [1..n -> PatternKinds]} : n \in 0..MaxPatterns}

InitSuggest ==
    /\ OcrIdle
    /\ SvcIdle
    /\ DbIdle
    /\ FnIdle
    /\ purchases = <<>>
    /\ now = SuggestNow
    /\ requester = 0
    /\ patterns \in PatternLists
    /\ suggestions = <<>>

\* generate_shopping_suggestions with get_purchase_patterns returning
\* `patterns`
SuggestFromPatterns(user_id) ==
    /\ requester = 0
    /\ requester' = user_id
    /\ suggestions' = GenerateShoppingSuggestions(patterns, now)
    /\ UNCHANGED <<purchases, now, patterns, ocrVars, dbVars, fnVars, svcVars>>

NextSuggest == \E user_id \in PurchaseUsers : SuggestFromPatterns(user_id)

SpecSuggest == InitSuggest /\ [][NextSuggest]_vars

\* The rows of a category whose score passes the threshold
QualifyingRows(category) ==
    {i \in 1..Len(patterns) :
        /\ patterns[i].category = category
        /\ RLt(Rat(3, 10), SuggestionOf(patterns[i], now).confidence)}

\* The rows a returned list holds, by name
ListedRows(category) ==
    {i \in 1..Len(patterns) :
        \E j \in 1..Len(suggestions[category]) :
            suggestions[category][j].name = patterns[i].item_name}

\* C11: every category's list is in non-increasing order of confidence, has
\* at most 5 entries, each entry is a qualifying pattern of that category,
\* and when more than 5 qualify the list holds 5 of them, none scoring less
\* than a qualifying pattern that was left out.
C11_SortedTopFive ==
    requester # 0 =>
        \A c \in DOMAIN suggestions :
            LET q == suggestions[c] IN
            /\ \A j \in 1..(Len(q) - 1) : RLe(q[j + 1].confidence, q[j].confidence)
            /\ Len(q) <= 5
            /\ \A j \in 1..Len(q) :
                  \E i \in QualifyingRows(c) :
                      q[j] = SuggestionOf(patterns[i], now)
            /\ ListedRows(c) \subseteq QualifyingRows(c)
            /\ Cardinality(ListedRows(c)) = Len(q)
            /\ Cardinality(QualifyingRows(c)) > 5 =>
                  /\ Len(q) = 5
                  /\ \A i \in QualifyingRows(c) \ ListedRows(c) :
                        \A j \in 1..Len(q) :
                            RLe(SuggestionOf(patterns[i], now).confidence,
                                q[j].confidence)

\* C11 witness: six patterns of one category qualify, with different
\* scores and not in order, and five are returned.
C11_Witness ==
    /\ requester # 0
    /\ \E c \in DOMAIN suggestions :
          /\ Cardinality(QualifyingRows(c)) > 5
          /\ Len(suggestions[c]) = 5
          /\ suggestions[c][1].confidence # suggestions[c][5].confidence
          /\ \E i, k \in QualifyingRows(c) :
                /\ i < k
                /\ RLt(SuggestionOf(patterns[i], now).confidence,
                       SuggestionOf(patterns[k], now).confidence)

(***************************************************************************)
(* _calculate_suggestion_confidence on its own                             *)
(***************************************************************************)
MaxFrequency == 11   \* largest frequency handed to the scorer

\* The arguments the scorer is called with
Frequencies   == 1..MaxFrequency
DaysSinceLast == {-1, 0, 1, 30, 31, 60, 61}
Averages      == {Rat(-1, 1), Rat(0, 1), Rat(1, 2), Rat(7, 1), Rat(45, 1)}
WeeklyRates   == {Rat(-1, 1), Rat(0, 1), Rat(1, 2), Rat(1, 1), Rat(7, 1)}

ScoreCalls ==
    [fn : {"_calculate_suggestion_confidence"},
     frequency : Frequencies,
     days_since_last : DaysSinceLast,
     avg_days_since : Averages,
     purchases_per_week : WeeklyRates]

InitScore ==
    /\ OcrIdle
    /\ SvcIdle
    /\ DbIdle
    /\ MlIdle
    /\ call \in ScoreCalls
    /\ ret = NoReturn

\* One call of MLSuggestions._calculate_suggestion_confidence
CallScore ==
    /\ call.fn = "_calculate_suggestion_confidence"
    /\ ~ ret.returned
    /\ ret' = [returned |-> TRUE,
               value |-> CalculateSuggestionConfidence(
                             call.frequency, call.days_since_last,
                             call.avg_days_since, call.purchases_per_week)]
    /\ UNCHANGED <<call, ocrVars, dbVars, mlVars, svcVars>>

NextScore == CallScore

SpecScore == InitScore /\ [][NextScore]_vars

ScoreReturned ==
    call.fn = "_calculate_suggestion_confidence" /\ ret.returned

\* C12: the confidence the scorer returns is in [0, 1] for every frequency
\* >= 1, every days_since_last, negative ones included, every average and
\* every purchases_per_week.
C12_ConfidenceInUnitInterval ==
    ScoreReturned =>
        /\ RLe(Rat(0, 1), ret.value)
        /\ RLe(ret.value, Rat(1, 1))

\* C12 witness: the scorer ran on a negative days_since_last with a
\* positive average.
C12_Witness ==
    /\ ScoreReturned
    /\ call.days_since_last < 0
    /\ call.avg_days_since.n > 0

\* C13: the scorer is given purchases_per_week = frequency * 7 /
\* max(total_days, 1), so a pattern first bought less than a day ago is
\* scored with frequency * 7 (regularity 1.0) and is returned when that
\* score passes the threshold.
C13_PurchasesPerWeek ==
    [][\A u \in PurchaseUsers : GenerateSuggestions(u) =>
          \A i \in 1..Len(patterns') :
              LET p          == patterns'[i]
                  total_days == Days(now - p.first_purchase)
                  expected   ==
                      CalculateSuggestionConfidence(
                          p.frequency, Days(now - p.last_purchase), p.avg_days_since,
                          Rat(p.frequency * 7, IF total_days > 1 THEN total_days ELSE 1))
              IN  /\ SuggestionOf(p, now).confidence = expected
                  /\ RLt(Rat(3, 10), expected) =>
                        /\ p.category \in DOMAIN suggestions'
                        /\ \E j \in 1..Len(suggestions'[p.category]) :
                              /\ suggestions'[p.category][j].name = p.item_name
                              /\ suggestions'[p.category][j].confidence = expected]_vars

\* The value of x held between 0 and 1
Clamp01(x) ==
    IF RLt(x, Rat(0, 1)) THEN Rat(0, 1)
    ELSE IF RLt(Rat(1, 1), x) THEN Rat(1, 1) ELSE x

\* C14: the scorer returns 0.4 * frequency_score + 0.4 * time_score + 0.2 *
\* regularity_score, times 0.5 when days_since_last > 60, times 0.8 when
\* 30 < days_since_last <= 60, unchanged up to 30; time_score is
\* days_since_last / avg_interval held in [0, 1] for a positive average and
\* 0.5 otherwise.
C14_WeightedSumWithDecay ==
    ScoreReturned =>
        LET d  == call.days_since_last
            fs == IF call.frequency >= 10 THEN Rat(1, 1) ELSE Rat(call.frequency, 10)
            ts == IF call.avg_days_since.n > 0
                  THEN Clamp01(Rat(d * call.avg_days_since.d, call.avg_days_since.n))
                  ELSE Rat(1, 2)
            rs == IF call.purchases_per_week.n > 0
                  THEN Clamp01(call.purchases_per_week)
                  ELSE Rat(1, 10)
            \* (4 fs + 4 ts + 2 rs) / 10, over the common denominator
            sum == Rat(4 * fs.n * ts.d * rs.d + 4 * ts.n * fs.d * rs.d
                         + 2 * rs.n * fs.d * ts.d,
                       10 * fs.d * ts.d * rs.d)
        IN  ret.value =
                CASE d > 60             -> Rat(sum.n, 2 * sum.d)
                  [] d > 30 /\ d <= 60  -> Rat(4 * sum.n, 5 * sum.d)
                  [] d <= 30            -> sum

\* C14 witness: the scorer ran with days_since_last on the boundary 60 and
\* on the boundary 30, with a positive average.
C14_Witness ==
    /\ ScoreReturned
    /\ call.days_since_last \in {30, 60}
    /\ call.avg_days_since.n > 0
    /\ ret.value # Rat(0, 1)

(***************************************************************************)
(* MLSuggestions.categorize_item                                           *)
(***************************************************************************)
\* \w of the re module, over the characters of the model
IsWordChar(c) == IsAlpha(c) \/ IsDigit(c) \/ c = "_"

\* \b at index i of s: between s[i-1] and s[i], one a word character and
\* the other not (the ends of s count as not)
WordBoundary(s, i) ==
    (i > 1 /\ i - 1 <= Len(s) /\ IsWordChar(s[i - 1]))
        # (i >= 1 /\ i <= Len(s) /\ IsWordChar(s[i]))

\* re.search(r'\b' + re.escape(kw) + r'\b', s)
SearchWord(s, kw) ==
    \E i \in 1..(Len(s) - Len(kw) + 1) :
        /\ SubSeq(s, i, i + Len(kw) - 1) = kw
        /\ WordBoundary(s, i)
        /\ WordBoundary(s, i + Len(kw))

\* What one keyword adds to the score of its category
KeywordScore(keyword, item_name_lower) ==
    IF Contains(item_name_lower, Lower(keyword))
    THEN IF Lower(keyword) = item_name_lower THEN 10
         ELSE IF Contains(item_name_lower, Lower(keyword)) THEN 5
         ELSE IF SearchWord(item_name_lower, Lower(keyword)) THEN 7
         ELSE 0
    ELSE 0

\* score after the loop over the first k keywords of a category
RECURSIVE ScoreOfKeywords(_, _, _)
ScoreOfKeywords(keywords, item_name_lower, k) ==
    IF k = 0 THEN 0
    ELSE ScoreOfKeywords(keywords, item_name_lower, k - 1)
             + KeywordScore(keywords[k], item_name_lower)

\* category_scores, in the iteration order of category_keywords
CategoryScores(item_name, category_keywords) ==
    [c \in 1..Len(category_keywords) |->
        ScoreOfKeywords(category_keywords[c].keywords, Lower(item_name),
                        Len(category_keywords[c].keywords))]

\* Variant: of equal scores the last one is kept
RECURSIVE LastMaxKeyFrom(_, _, _)
LastMaxKeyFrom(scores, i, best) ==
    IF i > Len(scores) THEN best
    ELSE LastMaxKeyFrom(scores, i + 1, IF scores[i] >= scores[best] THEN i ELSE best)

\* max(category_scores, key=category_scores.get): the scan keeps the first
\* of equal scores
RECURSIVE MaxKeyFrom(_, _, _)
MaxKeyFrom(scores, i, best) ==
    IF i > Len(scores) THEN best
    ELSE MaxKeyFrom(scores, i + 1, IF scores[i] > scores[best] THEN i ELSE best)

\* MLSuggestions.categorize_item, given what get_category_keywords returned
CategorizeItem(item_name, category_keywords) ==
    LET category_scores == CategoryScores(item_name, category_keywords)
    IN  IF Len(category_scores) > 0
        THEN LET best_category == MaxKeyFrom(category_scores, 2, 1)
             IN  IF category_scores[best_category] > 0
                 THEN category_keywords[best_category].name
                 ELSE "other"
        ELSE "other"

MaxCategories == 2   \* rows of the categories table

\* Rows the categories table can hold
CategoryRows ==
    {[name |-> "dairy", keywords |-> <<<<"m","i","l","k">>, <<"c","h","e","e","s","e">>>>],
     [name |-> "pantry", keywords |-> <<<<"r","i","c","e">>, <<"b","r","e","a","d">>>>],
     [name |-> "bakery", keywords |-> <<<<"b","r","e","a","d">>, <<"c","a","k","e">>>>],
     [name |-> "frozen", keywords |-> <<<<"i","c","e"," ","c","r","e","a","m">>>>],
     [name |-> "other", keywords |-> <<>>]}

\* What get_category_keywords can return: rows of distinct names, in any order
KeywordMappings ==
    UNION {{m \in [1..n -> CategoryRows] :
               \A i, j \in 1..n : i # j => m[i].name # m[j].name} :
           n \in 0..MaxCategories}

CategorizedNames ==
    {<<"m","i","l","k">>,
     <<"A","l","m","o","n","d"," ","M","i","l","k">>,
     <<"m","i","l","k","s","h","a","k","e">>,
     <<"b","r","e","a","d">>,
     <<"r","i","c","e"," ","b","r","e","a","d">>,
     <<"i","c","e"," ","c","r","e","a","m">>,
     <<"t","o","f","u">>,
     <<>>}

CategorizeCalls ==
    [fn : {"categorize_item"}, item_name : CategorizedNames,
     category_keywords : KeywordMappings]

InitCategorize ==
    /\ OcrIdle
    /\ SvcIdle
    /\ DbIdle
    /\ MlIdle
    /\ call \in CategorizeCalls
    /\ ret = NoReturn

\* One call of MLSuggestions.categorize_item
CallCategorize ==
    /\ call.fn = "categorize_item"
    /\ ~ ret.returned
    /\ ret' = [returned |-> TRUE,
               category_scores |-> CategoryScores(call.item_name, call.category_keywords),
               value |-> CategorizeItem(call.item_name, call.category_keywords)]
    /\ UNCHANGED <<call, ocrVars, dbVars, mlVars, svcVars>>

NextCategorize == CallCategorize

SpecCategorize == InitCategorize /\ [][NextCategorize]_vars

CategorizeReturned == call.fn = "categorize_item" /\ ret.returned

\* The score of one keyword by the highest rule that applies
RuleScore(keyword, item_name_lower) ==
    IF keyword = item_name_lower THEN 10
    ELSE IF SearchWord(item_name_lower, keyword) THEN 7
    ELSE IF Contains(item_name_lower, keyword) THEN 5
    ELSE 0

RECURSIVE SumOfSeq(_)
SumOfSeq(q) == IF q = <<>> THEN 0 ELSE Head(q) + SumOfSeq(Tail(q))

\* C15: a category's score is the sum over its keywords of 10 for a keyword
\* equal to the whole name, 7 for one found between word boundaries, 5 for
\* one found only as a substring (milk: 7 in "almond milk", 5 in
\* "milkshake").
C15_HighestRulePerKeyword ==
    CategorizeReturned =>
        \A c \in 1..Len(call.category_keywords) :
            ret.category_scores[c] =
                SumOfSeq([k \in 1..Len(call.category_keywords[c].keywords) |->
                            RuleScore(Lower(call.category_keywords[c].keywords[k]),
                                      Lower(call.item_name))])

\* The categories of the call whose score is the largest
TopCategories ==
    {c \in 1..Len(ret.category_scores) :
        \A d \in 1..Len(ret.category_scores) :
            ret.category_scores[d] <= ret.category_scores[c]}

\* C16: the result is the first category, in the order of the mapping, of
\* those with the largest score, and "other" when every score is 0 or the
\* mapping is empty.
C16_FirstMaxOrOther ==
    CategorizeReturned =>
        IF \A c \in 1..Len(ret.category_scores) : ret.category_scores[c] = 0
        THEN ret.value = "other"
        ELSE ret.value = call.category_keywords[MinOf(TopCategories)].name

\* C16 witness: two categories tie on a positive score and the first one is
\* returned.
C16_Witness ==
    /\ CategorizeReturned
    /\ Cardinality(TopCategories) > 1
    /\ ret.category_scores[1] > 0
    /\ ret.value = call.category_keywords[1].name

(***************************************************************************)
(* ShoppingHandler: the quantity/unit parser                               *)
(***************************************************************************)
UpperChar(c) ==
    IF IsLower(c) THEN UpperCase[CHOOSE i \in 1..26 : LowerCase[i] = c] ELSE c

\* str.title(): a letter that follows a letter is lowered, any other letter
\* is raised
Title(s) ==
    [i \in 1..Len(s) |->
        IF IsAlpha(s[i])
        THEN IF i > 1 /\ IsAlpha(s[i - 1]) THEN LowerChar(s[i]) ELSE UpperChar(s[i])
        ELSE s[i]]

RECURSIVE Pow10(_)
Pow10(k) == IF k = 0 THEN 1 ELSE 10 * Pow10(k - 1)

\* float(g) for a group matched by \d+(?:\.\d+)?
FloatOf(g) ==
    LET j == DigitRunEnd(g, 1)
    IN  IF j > Len(g) THEN Rat(IntOf(g), 1)
        ELSE Rat(IntOf(SubSeq(g, 1, j - 1)) * Pow10(Len(g) - j)
                     + IntOf(SubSeq(g, j + 1, Len(g))),
                 Pow10(Len(g) - j))

\* (\d+(?:\.\d+)?) at the start of s: the index after it, 0 when s does not
\* start with a digit.  The greedy match is the only one that counts: a
\* shorter number is followed by a digit or a period, which none of the
\* three patterns accepts next.
QuantityEnd(s) ==
    LET j == DigitRunEnd(s, 1)
    IN  IF j = 1 THEN 0
        ELSE IF j + 1 <= Len(s) /\ s[j] = "." /\ IsDigit(s[j + 1])
             THEN DigitRunEnd(s, j + 2)
             ELSE j

\* \s* or \s+ from index i: the first index >= i that holds no whitespace
SpaceRunEnd(s, i) ==
    LET stops == {j \in i..Len(s) : ~IsSpace(s[j])}
    IN  IF stops = {} THEN Len(s) + 1
        ELSE CHOOSE j \in stops : \A k \in stops : j <= k

NoMatch == [matched |-> FALSE]

\* kg|g|l|ml|pieces?|pcs? in the order the alternation tries them
UnitAlternatives ==
    <<<<"k","g">>,
      <<"g">>,
      <<"l">>,
      <<"m","l">>,
      <<"p","i","e","c","e","s">>,
      <<"p","i","e","c","e">>,
      <<"p","c","s">>,
      <<"p","c">>>>

\* quantity_patterns[0].match(s) for a stripped s:
\* (\d+(?:\.\d+)?)\s*(kg|g|l|ml|pieces?|pcs?)\s+(.+), ignoring case
UnitPattern(s) ==
    LET q == QuantityEnd(s)
        u == SpaceRunEnd(s, q)
        fits == {k \in 1..Len(UnitAlternatives) :
                    /\ u + Len(UnitAlternatives[k]) <= Len(s)
                    /\ Lower(SubSeq(s, u, u + Len(UnitAlternatives[k]) - 1))
                           = UnitAlternatives[k]
                    /\ IsSpace(s[u + Len(UnitAlternatives[k])])
                    /\ SpaceRunEnd(s, u + Len(UnitAlternatives[k])) <= Len(s)}
    IN  IF q = 0 \/ fits = {} THEN NoMatch
        ELSE LET e == u + Len(UnitAlternatives[MinOf(fits)])
             IN  [matched |-> TRUE,
                  groups |-> <<SubSeq(s, 1, q - 1), SubSeq(s, u, e - 1),
                               SubSeq(s, SpaceRunEnd(s, e), Len(s))>>]

\* The multiplier form as stated: (\d+(?:\.\d+)?)x\s*(.+), the x at once
\* after the number
TimesPatternNoSpace(s) ==
    LET q == QuantityEnd(s)
    IN  IF /\ q # 0
           /\ q <= Len(s)
           /\ LowerChar(s[q]) = "x"
           /\ SpaceRunEnd(s, q + 1) <= Len(s)
        THEN [matched |-> TRUE,
              groups |-> <<SubSeq(s, 1, q - 1),
                           SubSeq(s, SpaceRunEnd(s, q + 1), Len(s))>>]
        ELSE NoMatch

\* quantity_patterns[1].match(s) for a stripped s:
\* (\d+(?:\.\d+)?)\s*x\s*(.+), ignoring case
TimesPattern(s) ==
    LET q == QuantityEnd(s)
        u == SpaceRunEnd(s, q)
    IN  IF /\ q # 0
           /\ u <= Len(s)
           /\ LowerChar(s[u]) = "x"
           /\ SpaceRunEnd(s, u + 1) <= Len(s)
        THEN [matched |-> TRUE,
              groups |-> <<SubSeq(s, 1, q - 1),
                           SubSeq(s, SpaceRunEnd(s, u + 1), Len(s))>>]
        ELSE NoMatch

\* quantity_patterns[2].match(s) for a stripped s: (\d+(?:\.\d+)?)\s+(.+)
CountPattern(s) ==
    LET q == QuantityEnd(s)
        u == SpaceRunEnd(s, q)
    IN  IF q # 0 /\ u > q /\ u <= Len(s)
        THEN [matched |-> TRUE,
              groups |-> <<SubSeq(s, 1, q - 1), SubSeq(s, u, Len(s))>>]
        ELSE NoMatch

\* [pattern.match(text) for pattern in self.quantity_patterns]
QuantityPatterns(s) == <<UnitPattern(s), TimesPattern(s), CountPattern(s)>>

Piece == <<"p", "i", "e", "c", "e">>

\* ShoppingHandler._extract_quantity_and_item
ExtractQuantityAndItem(fragment) ==
    LET s == Strip(fragment)
        matches == QuantityPatterns(s)
        hits == {k \in 1..Len(matches) : matches[k].matched}
    IN  IF hits # {}
        THEN LET groups == matches[MinOf(hits)].groups
             IN  IF Len(groups) = 3
                 THEN Some([name |-> Title(Strip(groups[3])),
                            quantity |-> FloatOf(groups[1]),
                            unit |-> Lower(groups[2])])
                 ELSE Some([name |-> Title(Strip(groups[2])),
                            quantity |-> FloatOf(groups[1]),
                            unit |-> Piece])
        ELSE IF s # <<>>
             THEN Some([name |-> Title(Strip(s)), quantity |-> Rat(1, 1),
                        unit |-> Piece])
             ELSE None

\* The words of the clean-up pattern, in the order of its alternation
FillerWords ==
    <<<<"a","d","d">>,
      <<"b","u","y">>,
      <<"n","e","e","d">>,
      <<"g","e","t">>,
      <<"p","u","r","c","h","a","s","e">>,
      <<"t","o">>,
      <<"t","h","e">>,
      <<"s","o","m","e">>,
      <<"a","n","d">>>>

\* \b(w)\b matched at index i of s, ignoring case
WordAt(s, i, w) ==
    /\ i + Len(w) - 1 <= Len(s)
    /\ Lower(SubSeq(s, i, i + Len(w) - 1)) = w
    /\ WordBoundary(s, i)
    /\ WordBoundary(s, i + Len(w))

\* re.sub(r'\b(add|buy|need|get|purchase|to|the|some|and)\b', '', s,
\*        flags=re.IGNORECASE), scanning from index i
RECURSIVE RemoveFillersFrom(_, _)
RemoveFillersFrom(s, i) ==
    IF i > Len(s) THEN <<>>
    ELSE LET hits == {k \in 1..Len(FillerWords) : WordAt(s, i, FillerWords[k])}
         IN  IF hits # {}
             THEN RemoveFillersFrom(s, i + Len(FillerWords[MinOf(hits)]))
             ELSE <<s[i]>> \o RemoveFillersFrom(s, i + 1)

\* re.sub(r'[^\w\s,.-]', '', s)
RemoveSpecials(s) ==
    SelectSeq(s, LAMBDA c : IsWordChar(c) \/ IsSpace(c) \/ c \in {",", ".", "-"})

\* re.split(r'[,;]|\band\b', s), scanning from index i with the current
\* part starting at index start
RECURSIVE SplitFrom(_, _, _)
SplitFrom(s, i, start) ==
    IF i > Len(s) THEN <<SubSeq(s, start, Len(s))>>
    ELSE IF s[i] \in {",", ";"}
         THEN <<SubSeq(s, start, i - 1)>> \o SplitFrom(s, i + 1, i + 1)
         ELSE IF /\ i + 2 <= Len(s)
                 /\ SubSeq(s, i, i + 2) = <<"a", "n", "d">>
                 /\ WordBoundary(s, i)
                 /\ WordBoundary(s, i + 3)
              THEN <<SubSeq(s, start, i - 1)>> \o SplitFrom(s, i + 3, i + 3)
              ELSE SplitFrom(s, i + 1, start)

\* items.append(item_data) when item_data is not None
AppendedItem(item_data) == IF item_data.some THEN <<item_data.val>> ELSE <<>>

\* One turn of the loop over parts
ItemsOfPart(part) ==
    IF Len(part) < 2 THEN <<>> ELSE AppendedItem(ExtractQuantityAndItem(part))

\* The loop over parts: items after the parts given
RECURSIVE ItemsOfParts(_)
ItemsOfParts(parts) ==
    IF parts = <<>> THEN <<>>
    ELSE ItemsOfPart(Strip(Head(parts))) \o ItemsOfParts(Tail(parts))

\* ShoppingHandler._parse_items_from_text
ParseItemsFromText(message) ==
    ItemsOfParts(SplitFrom(RemoveSpecials(RemoveFillersFrom(message, 1)), 1, 1))

\* Fragments: a number or none, a gap or none, a unit word, an x or
\* nothing, a gap or none, a name or none
FragmentNumbers ==
    {<<>>, <<"2">>,
     <<"0">>,
     <<"1",".","5">>,
     <<"1",",","5">>,
     <<"1","0">>}
Gaps == {<<>>, <<" ">>}
SpecUnitTokens ==
    <<<<"g">>,
       <<"g","r","a","m">>,
       <<"g","r","a","m","s">>,
       <<"k","g">>,
       <<"k","i","l","o","g","r","a","m">>,
       <<"l">>,
       <<"l","i","t","e","r">>,
       <<"l","i","t","r","e">>,
       <<"m","l">>,
       <<"p","i","e","c","e">>,
       <<"p","i","e","c","e","s">>,
       <<"p","c">>,
       <<"p","c","s">>,
       <<"u","n","i","t">>,
       <<"u","n","i","t","s">>,
       <<"o","z">>,
       <<"l","b">>>>
FragmentHeads ==
    Range(SpecUnitTokens) \cup {<<>>, <<"x">>, <<"X">>, <<"K","G">>}
FragmentNames ==
    {<<>>, <<"r","i","c","e">>,
     <<"x","y","l","o","p","h","o","n","e","s">>,
     <<"g","r","a","p","e","s">>,
     <<"F","l","o","u","r">>}
FragmentTexts ==
    {n \o g \o h \o k \o t :
        n \in FragmentNumbers, g \in Gaps, h \in FragmentHeads, k \in Gaps,
        t \in FragmentNames}
    \cup {<<" "," ">>, <<" ","b","r","e","a","d"," ">>, <<"c","h","i","c","k","e","n"," ","b","r","e","a","s","t">>}

\* Messages: an opening or none, two fragments and what stands between them
MessageOpenings ==
    {<<>>, <<"a","d","d"," ">>, <<"B","u","y"," ","s","o","m","e"," ">>}
MessageFragments ==
    {<<>>, <<"1",",","5","k","g"," ","f","l","o","u","r">>,
     <<"1",".","5","k","g"," ","f","l","o","u","r">>,
     <<"2"," ","x","y","l","o","p","h","o","n","e","s">>,
     <<"0"," ","e","g","g","s">>,
     <<"b","r","e","a","d">>,
     <<"a">>,
     <<"s","a","n","d">>,
     <<"2","x"," ","m","i","l","k","!">>,
     <<"3"," ","p","c","s"," ","t","e","a">>}
MessageSeparators ==
    {<<","," ">>, <<" ","a","n","d"," ">>, <<";"," ">>, <<" ","A","N","D"," ">>}
MessageTexts ==
    {p \o a \o j \o b :
        p \in MessageOpenings, a \in MessageFragments,
        j \in MessageSeparators, b \in MessageFragments}

ItemCalls ==
    [fn : {"_extract_quantity_and_item"}, text : FragmentTexts]
        \cup [fn : {"_parse_items_from_text"}, text : MessageTexts]

InitItems ==
    /\ OcrIdle
    /\ SvcIdle
    /\ DbIdle
    /\ MlIdle
    /\ call \in ItemCalls
    /\ ret = NoReturn

\* One call of ShoppingHandler._extract_quantity_and_item
CallExtract ==
    /\ call.fn = "_extract_quantity_and_item"
    /\ ~ ret.returned
    /\ ret' = [returned |-> TRUE, value |-> ExtractQuantityAndItem(call.text)]
    /\ UNCHANGED <<call, ocrVars, dbVars, mlVars, svcVars>>

\* One call of ShoppingHandler._parse_items_from_text
CallParseItems ==
    /\ call.fn = "_parse_items_from_text"
    /\ ~ ret.returned
    /\ ret' = [returned |-> TRUE, value |-> ParseItemsFromText(call.text)]
    /\ UNCHANGED <<call, ocrVars, dbVars, mlVars, svcVars>>

NextItems == CallExtract \/ CallParseItems

SpecItems == InitItems /\ [][NextItems]_vars

ExtractReturned == call.fn = "_extract_quantity_and_item" /\ ret.returned
ParseItemsReturned == call.fn = "_parse_items_from_text" /\ ret.returned

\* The four rules as stated, first shape that fits: (1) number, optional
\* space, unit token, space, rest; (2) number, x at once, rest; (3) number,
\* space, rest; (4) the whole trimmed fragment.
RuleResult(fragment) ==
    LET s == Strip(fragment)
    IN  IF UnitPattern(s).matched
        THEN Some([name |-> Title(Strip(UnitPattern(s).groups[3])),
                   quantity |-> FloatOf(UnitPattern(s).groups[1]),
                   unit |-> Lower(UnitPattern(s).groups[2])])
        ELSE IF TimesPatternNoSpace(s).matched
        THEN Some([name |-> Title(Strip(TimesPatternNoSpace(s).groups[2])),
                   quantity |-> FloatOf(TimesPatternNoSpace(s).groups[1]),
                   unit |-> Piece])
        ELSE IF CountPattern(s).matched
        THEN Some([name |-> Title(Strip(CountPattern(s).groups[2])),
                   quantity |-> FloatOf(CountPattern(s).groups[1]),
                   unit |-> Piece])
        ELSE IF s # <<>>
        THEN Some([name |-> Title(s), quantity |-> Rat(1, 1), unit |-> Piece])
        ELSE None

\* C17: the result is that of the first rule, in the order 1 to 4, whose
\* shape the fragment has; a number, a space and a name that begins with x
\* has the shape of rule 3 only and keeps its whole name.
C17_FirstShapeDecides ==
    ExtractReturned => ret.value = RuleResult(call.text)

\* The canonical short form of a unit token of the list
CanonicalUnit(u) ==
    CASE u \in {<<"g">>, <<"g","r","a","m">>, <<"g","r","a","m","s">>} -> <<"g">>
      [] u \in {<<"k","g">>, <<"k","i","l","o","g","r","a","m">>} -> <<"k","g">>
      [] u \in {<<"l">>, <<"l","i","t","e","r">>, <<"l","i","t","r","e">>} -> <<"l">>
      [] u \in {<<"p","i","e","c","e">>, <<"p","i","e","c","e","s">>, <<"p","c">>, <<"p","c","s">>, <<"u","n","i","t">>, <<"u","n","i","t","s">>} -> Piece
      [] OTHER -> u

\* C18: "<N><unit> <name>" with a unit token of the list parses to the
\* quantity N, the canonical short unit and the name in title case.
C18_RoundTrip ==
    ExtractReturned =>
        \A n \in FragmentNumbers, k \in 1..Len(SpecUnitTokens), t \in FragmentNames :
            (/\ n # <<>>
             /\ QuantityEnd(n) = Len(n) + 1
             /\ t # <<>>
             /\ call.text = n \o SpecUnitTokens[k] \o <<" ">> \o t)
            => ret.value = Some([name |-> Title(t), quantity |-> FloatOf(n),
                                 unit |-> CanonicalUnit(SpecUnitTokens[k])])

\* The number written with a comma, read as a decimal
CommaDecimal(n) ==
    FloatOf([i \in 1..Len(n) |-> IF n[i] = "," THEN "." ELSE n[i]])

\* C19: a fragment or a message "<N>,<M>kg <name>" gives the one item of
\* quantity N.M, unit kg and the name in title case, as with a period.
C19_CommaIsDecimal ==
    \A n \in FragmentNumbers, t \in {<<"f","l","o","u","r">>, <<"F","l","o","u","r">>} :
        (/\ "," \in Range(n)
         /\ call.text = n \o <<"k","g"," ">> \o t)
        => /\ ExtractReturned =>
                ret.value = Some([name |-> Title(t), quantity |-> CommaDecimal(n),
                                  unit |-> <<"k","g">>])
           /\ ParseItemsReturned =>
                ret.value = <<[name |-> Title(t), quantity |-> CommaDecimal(n),
                               unit |-> <<"k","g">>]>>

\* C20: None exactly for a fragment that is empty after trimming, otherwise
\* an item with a name and a quantity above zero; every item of a message
\* has a name and a quantity above zero.
C20_NoneOnlyWhenEmpty ==
    /\ ExtractReturned =>
        /\ ret.value = None <=> Strip(call.text) = <<>>
        /\ ret.value # None =>
            /\ ret.value.val.name # <<>>
            /\ ret.value.val.quantity.n > 0
    /\ ParseItemsReturned =>
        \A i \in 1..Len(ret.value) :
            /\ ret.value[i].name # <<>>
            /\ ret.value[i].quantity.n > 0

(***************************************************************************)
(* CacheService and AIService.generate_smart_suggestions                   *)
(*                                                                         *)
(* redis_db and memory_cache are functions from the keys they hold.  Item  *)
(* names are character strings, as in the parsers above.                   *)
(***************************************************************************)
MaxClock == 2400   \* the clock stops here

SuggestionTtl == 1800   \* cache_user_suggestions(..., ttl: int = 1800)

HistoryDays == 30   \* timedelta(days=30)

SecondsPerDay == 86400

ReceiptLimit == 10   \* .limit(10)

\* How far the clock moves in one step
ClockSteps == {600, 1200}

\* m with key bound to v (a dict assignment)
MapSet(m, key, v) ==
    [k \in DOMAIN m \cup {key} |-> IF k = key THEN v ELSE m[k]]

\* CacheService.get_user_cache_key
GetUserCacheKey(user_id, suffix) == <<"user", user_id, suffix>>

\* CacheService._serialize / _deserialize of a JSON value
Serialize(value) == [json |-> value]
Deserialize(bytes) == bytes.json

\* CacheService.get: None for a miss, and for a Redis error (redis_ok false)
CacheGet(key, redis_ok) ==
    IF redis_client
    THEN IF redis_ok /\ key \in DOMAIN redis_db /\ clock < redis_db[key].expires_at
         THEN Some(Deserialize(redis_db[key].value))
         ELSE None
    ELSE IF key \in DOMAIN memory_cache THEN Some(memory_cache[key]) ELSE None

\* CacheService.set: the two stores after the call and the returned bool.
\* The in-memory store keeps the value only; ttl is not used there.
CacheSet(key, value, ttl, redis_ok) ==
    IF redis_client
    THEN IF redis_ok
         THEN [redis_db |-> MapSet(redis_db, key,
                                   [value |-> Serialize(value),
                                    expires_at |-> clock + ttl]),
               memory_cache |-> memory_cache, ok |-> TRUE]
         ELSE [redis_db |-> redis_db, memory_cache |-> memory_cache, ok |-> FALSE]
    ELSE [redis_db |-> redis_db,
          memory_cache |-> MapSet(memory_cache, key, value), ok |-> TRUE]

\* CacheService.get_user_suggestions
GetUserSuggestions(user_id, redis_ok) ==
    CacheGet(GetUserCacheKey(user_id, "suggestions"), redis_ok)

\* CacheService.cache_user_suggestions
CacheUserSuggestions(user_id, value, redis_ok) ==
    CacheSet(GetUserCacheKey(user_id, "suggestions"), value, SuggestionTtl, redis_ok)

\* The list _get_fallback_suggestions starts from
DefaultSuggestions ==
    <<[item |-> <<"M","i","l","k">>, reason |-> "Essential dairy product",
       category |-> "dairy", priority |-> 2, ai_provider |-> "fallback"],
      [item |-> <<"B","r","e","a","d">>, reason |-> "Staple food item",
       category |-> "bakery", priority |-> 2, ai_provider |-> "fallback"],
      [item |-> <<"E","g","g","s">>, reason |-> "Protein source",
       category |-> "dairy", priority |-> 2, ai_provider |-> "fallback"],
      [item |-> <<"B","a","n","a","n","a","s">>, reason |-> "Healthy fruit option",
       category |-> "fruits", priority |-> 1, ai_provider |-> "fallback"],
      [item |-> <<"C","h","i","c","k","e","n"," ","b","r","e","a","s","t">>, reason |-> "Lean protein",
       category |-> "meat", priority |-> 2, ai_provider |-> "fallback"]>>

NotMeat(suggestion) == suggestion.category # "meat"

\* AIService._get_fallback_suggestions
GetFallbackSuggestions(user_id) ==
    IF user_id \notin users THEN <<>>
    ELSE IF "vegetarian" \in Range(dietary_preferences[user_id])
         THEN SelectSeq(DefaultSuggestions, NotMeat)
         ELSE DefaultSuggestions

\* The receipts query of generate_smart_suggestions: the ids of the user's
\* receipts of the last 30 days, the first 10 of them
RecentReceipts(user_id) ==
    LET ids == SelectSeq([i \in 1..Len(receipts) |-> i],
                         LAMBDA i : /\ receipts[i].user_id = user_id
                                    /\ receipts[i].purchase_date
                                           >= clock - HistoryDays * SecondsPerDay)
    IN  SubSeq(ids, 1, IF Len(ids) < ReceiptLimit THEN Len(ids) ELSE ReceiptLimit)

\* The item names of the given receipts, lowered, in the order the two
\* loops of _analyze_purchase_patterns visit them
RECURSIVE ItemNamesOf(_)
ItemNamesOf(ids) ==
    IF ids = <<>> THEN <<>>
    ELSE [k \in 1..Len(SelectSeq(receipt_items, LAMBDA r : r.receipt_id = Head(ids))) |->
            Lower(SelectSeq(receipt_items, LAMBDA r : r.receipt_id = Head(ids))[k].item_name)]
         \o ItemNamesOf(Tail(ids))

\* patterns["frequent_items"] after the names given: [item, frequency] in
\* the order the keys were first inserted
RECURSIVE FrequentItems(_)
FrequentItems(names) ==
    IF names = <<>> THEN <<>>
    ELSE LET before == FrequentItems(SubSeq(names, 1, Len(names) - 1))
             name == names[Len(names)]
         IN  IF \E k \in 1..Len(before) : before[k].item = name
             THEN [k \in 1..Len(before) |->
                     IF before[k].item = name
                     THEN [item |-> name, frequency |-> before[k].frequency + 1]
                     ELSE before[k]]
             ELSE Append(before, [item |-> name, frequency |-> 1])

\* AIService._analyze_purchase_patterns (frequent_items)
AnalyzePurchasePatterns(ids) == FrequentItems(ItemNamesOf(ids))

\* sorted(..., key=frequency, reverse=True): stable, larger first
RECURSIVE SortByFrequency(_)
SortByFrequency(q) ==
    IF q = <<>> THEN <<>>
    ELSE LET m == CHOOSE i \in 1..Len(q) :
                     /\ \A j \in 1..Len(q) : q[j].frequency <= q[i].frequency
                     /\ \A j \in 1..(i - 1) : q[j].frequency < q[i].frequency
         IN  <<q[m]>> \o SortByFrequency(SubSeq(q, 1, m - 1) \o SubSeq(q, m + 1, Len(q)))

\* AIService._get_fallback_suggestions_from_patterns
GetFallbackSuggestionsFromPatterns(frequent_items) ==
    LET top == SubSeq(SortByFrequency(frequent_items), 1,
                      IF Len(frequent_items) < 5 THEN Len(frequent_items) ELSE 5)
    IN  [k \in 1..Len(top) |->
            [item |-> Title(top[k].item), reason |-> "You buy this frequently",
             frequency |-> top[k].frequency,
             category |-> "frequent", priority |-> 2,
             ai_provider |-> "pattern_based"]]

\* What the AI provider can answer: an error (or text that is no JSON), or
\* a JSON array of suggestions
AiResponses ==
    {[ok |-> FALSE],
     [ok |-> TRUE, suggestions |-> <<>>],
     [ok |-> TRUE, suggestions |->
        <<[item |-> <<"O","a","t"," ","m","i","l","k">>, reason |-> "Alternative", category |-> "dairy",
           priority |-> 1]>>]}

\* AIService._generate_ai_suggestions, given the provider's answer
GenerateAiSuggestions(frequent_items, response) ==
    IF response.ok
    THEN [k \in 1..Len(response.suggestions) |->
            [item |-> response.suggestions[k].item,
             reason |-> response.suggestions[k].reason,
             category |-> response.suggestions[k].category,
             priority |-> response.suggestions[k].priority,
             ai_provider |-> "openai"]]
    ELSE GetFallbackSuggestionsFromPatterns(frequent_items)

AiUsers == {{1}, {1, 2}}

AiDietaryPreferences ==
    {[u \in UserIds |-> <<>>],
     [u \in UserIds |-> IF u = 1 THEN <<"vegetarian">> ELSE <<>>],
     [u \in UserIds |-> IF u = 1 THEN <<"vegan", "vegetarian">> ELSE <<"halal">>]}

\* The receipts and their items the database holds: none, one of user 1
\* from today, or one of user 1 from 35 days ago
AiHistories ==
    {[receipts |-> <<>>, receipt_items |-> <<>>],
     [receipts |-> <<[user_id |-> 1, purchase_date |-> 0]>>,
      receipt_items |-> <<[receipt_id |-> 1, item_name |-> <<"T","o","f","u">>],
                          [receipt_id |-> 1, item_name |-> <<"R","I","C","E">>],
                          [receipt_id |-> 1, item_name |-> <<"r","i","c","e">>]>>],
     [receipts |-> <<[user_id |-> 1, purchase_date |-> 0 - 35 * SecondsPerDay]>>,
      receipt_items |-> <<[receipt_id |-> 1, item_name |-> <<"T","o","f","u">>]>>]}

InitAI ==
    /\ OcrIdle
    /\ MlIdle
    /\ FnIdle
    /\ BotIdle
    /\ ListIdle
    /\ users \in AiUsers
    /\ \E h \in AiHistories :
          /\ receipts = h.receipts
          /\ receipt_items = h.receipt_items
    /\ products = <<>>
    /\ reply = ""
    /\ ai_enabled \in BOOLEAN
    /\ redis_client \in BOOLEAN
    /\ redis_db = <<>>
    /\ memory_cache = <<>>
    /\ clock = 0
    /\ stored_at = <<>>
    /\ dietary_preferences \in AiDietaryPreferences

\* Time passes
Advance(d) ==
    /\ clock + d <= MaxClock
    /\ clock' = clock + d
    /\ UNCHANGED <<ai_enabled, redis_client, redis_db, memory_cache, stored_at,
                   dietary_preferences, ocrVars, dbVars, mlVars, fnVars,
                   botVars, listVars>>

\* AIService.generate_smart_suggestions(user_id, db).  response is the
\* provider's answer if it is asked; get_ok and set_ok tell whether the
\* Redis commands of this call go through.
GenerateSmartSuggestions(user_id, response, get_ok, set_ok) ==
    /\ call' = [fn |-> "generate_smart_suggestions", user_id |-> user_id, at |-> clock]
    /\ UNCHANGED <<ai_enabled, redis_client, clock, dietary_preferences,
                   ocrVars, dbVars, mlVars, botVars, listVars>>
    /\ IF ~ ai_enabled
       THEN /\ ret' = [returned |-> TRUE, from |-> "fallback",
                       value |-> GetFallbackSuggestions(user_id)]
            /\ UNCHANGED <<redis_db, memory_cache, stored_at>>
       ELSE \E cached_suggestions \in {GetUserSuggestions(user_id, get_ok)} :
            IF cached_suggestions # None /\ cached_suggestions.val # <<>>
            THEN /\ ret' = [returned |-> TRUE, from |-> "cache",
                            value |-> cached_suggestions.val]
                 /\ UNCHANGED <<redis_db, memory_cache, stored_at>>
            ELSE IF user_id \notin users
            THEN /\ ret' = [returned |-> TRUE, from |-> "no user", value |-> <<>>]
                 /\ UNCHANGED <<redis_db, memory_cache, stored_at>>
            ELSE \E new \in {GenerateAiSuggestions(
                                 AnalyzePurchasePatterns(RecentReceipts(user_id)),
                                 response)} :
                 \E stored \in {CacheUserSuggestions(user_id, new, set_ok)} :
                    /\ redis_db' = stored.redis_db
                    /\ memory_cache' = stored.memory_cache
                    /\ stored_at' =
                         IF stored.ok
                         THEN MapSet(stored_at, GetUserCacheKey(user_id, "suggestions"),
                                     [at |-> clock, value |-> new, user_id |-> user_id])
                         ELSE stored_at
                    /\ ret' = [returned |-> TRUE, from |-> "computed", value |-> new]

NextAI ==
    \/ \E d \in ClockSteps : Advance(d)
    \/ \E user_id \in UserIds, response \in AiResponses, get_ok, set_ok \in BOOLEAN :
          GenerateSmartSuggestions(user_id, response, get_ok, set_ok)

SpecAI == InitAI /\ [][NextAI]_vars

SmartReturned == call.fn = "generate_smart_suggestions" /\ ret.returned

\* What cache_user_suggestions last stored for the user of the call
StoredForCaller == stored_at[GetUserCacheKey(call.user_id, "suggestions")]

\* C21: a list that generate_smart_suggestions takes from the cache is the
\* one last stored for the same user, and less than 1800 seconds have passed
\* since it was stored, with Redis and with the in-memory store alike.
C21_CachedOnlyWithinTtl ==
    (SmartReturned /\ ret.from = "cache") =>
        /\ GetUserCacheKey(call.user_id, "suggestions") \in DOMAIN stored_at
        /\ StoredForCaller.user_id = call.user_id
        /\ StoredForCaller.value = ret.value
        /\ call.at - StoredForCaller.at < SuggestionTtl

\* The user of the call has a receipt of the last 30 days with an item
HasQualifyingHistory ==
    \E i \in 1..Len(receipts) :
        /\ receipts[i].user_id = call.user_id
        /\ receipts[i].purchase_date >= call.at - HistoryDays * SecondsPerDay
        /\ \E k \in 1..Len(receipt_items) : receipt_items[k].receipt_id = i

\* The default list without its meat entries
MeatlessDefaults ==
    SelectSeq(DefaultSuggestions, LAMBDA x : x.category # "meat")

\* C22: for a known user without qualifying history, or without AI, the
\* result is the default list in its order, and for a vegetarian that list
\* without its meat entries.
C22_DefaultListWhenNoHistoryOrNoAi ==
    (/\ SmartReturned
     /\ call.user_id \in users
     /\ (~ ai_enabled \/ ~ HasQualifyingHistory))
    => ret.value = IF "vegetarian" \in Range(dietary_preferences[call.user_id])
                   THEN MeatlessDefaults
                   ELSE DefaultSuggestions

(***************************************************************************)
(* Regular expressions of OCRProcessor and TextParser                      *)
(*                                                                         *)
(* A pattern is a sequence of elements; an element matched at index i      *)
(* offers the indexes where it can end in the order the backtracking       *)
(* matcher of the re module tries them, and the match is the first choice  *)
(* of ends, element by element, that lets the rest of the pattern match.   *)
(***************************************************************************)
INR == "INR"   \* stand-in for the rupee sign
NL == "\n"

InClass(c, cls) ==
    CASE cls = "alpha"       -> IsAlpha(c)
      [] cls = "alpha_space" -> IsAlpha(c) \/ IsSpace(c)
      [] cls = "digit"       -> IsDigit(c)
      [] cls = "space"       -> IsSpace(c)
      [] cls = "currency"    -> c \in {EUR, "$", GBP, JPY, INR}
      [] cls = "separator"   -> c \in {".", ","}
      [] cls = "any"         -> c # NL

\* The number of characters of the class that s holds from index i on
RunLength(s, i, cls) ==
    LET stops == {j \in i..Len(s) : ~InClass(s[j], cls)}
    IN  IF stops = {} THEN (IF i > Len(s) THEN 0 ELSE Len(s) + 1 - i)
        ELSE (CHOOSE j \in stops : \A k \in stops : j <= k) - i

\* The integers from a down to b
Downto(a, b) == [k \in 1..(a - b + 1) |-> a - k + 1]
\* The integers from a up to b
Upto(a, b) == [k \in 1..(b - a + 1) |-> a + k - 1]

\* [.,]\d+ from index i: where it can end, longest first
FractionEnds(s, i) ==
    IF i <= Len(s) /\ InClass(s[i], "separator") /\ RunLength(s, i + 1, "digit") > 0
    THEN Downto(i + 1 + RunLength(s, i + 1, "digit"), i + 2)
    ELSE <<>>

\* Elements.  Rep: cls{min,max}, greedy or lazy; Number: \d+[.,]\d+|\d+ ;
\* Fraction: (?:[.,]\d+)? ; End: $
Rep(cls, min, max, greedy) ==
    [kind |-> "rep", cls |-> cls, min |-> min, max |-> max, greedy |-> greedy]
Many == 1000   \* no upper limit
Plus(cls) == Rep(cls, 1, Many, TRUE)
Star(cls) == Rep(cls, 0, Many, TRUE)
Opt(cls) == Rep(cls, 0, 1, TRUE)
LazyPlus(cls) == Rep(cls, 1, Many, FALSE)
NumberElement == [kind |-> "number"]
FractionElement == [kind |-> "fraction"]
EndElement == [kind |-> "end"]

\* Where the element can end when it starts at index i, in the order tried
ElementEnds(el, s, i) ==
    CASE el.kind = "rep" ->
            LET run == RunLength(s, i, el.cls)
                top == IF run < el.max THEN run ELSE el.max
            IN  IF el.greedy THEN Downto(i + top, i + el.min)
                ELSE Upto(i + el.min, i + top)
      [] el.kind = "number" ->
            (IF RunLength(s, i, "digit") > 0
             THEN FractionEnds(s, i + RunLength(s, i, "digit"))
             ELSE <<>>)
            \o Downto(i + RunLength(s, i, "digit"), i + 1)
      [] el.kind = "fraction" -> FractionEnds(s, i) \o <<i>>
      [] el.kind = "end" -> IF i = Len(s) + 1 THEN <<i>> ELSE <<>>

NoPath == [ok |-> FALSE]

\* Whether the elements k.. of pat match from index i
RECURSIVE Matches(_, _, _, _)
MatchesAny(pat, k, s, ends) ==
    \E c \in 1..Len(ends) : Matches(pat, k + 1, s, ends[c])
Matches(pat, k, s, i) ==
    k > Len(pat) \/ MatchesAny(pat, k, s, ElementEnds(pat[k], s, i))

\* The elements k.. of pat matched from index i: the end of each, or NoPath.
\* Of the ends the element offers, the first that lets the rest match counts.
RECURSIVE PathFrom(_, _, _, _)
Extended(e, rest) == [ok |-> TRUE, ends |-> <<e>> \o rest.ends]
FirstPath(pat, k, s, ends, good) ==
    IF good = {} THEN NoPath
    ELSE Extended(ends[CHOOSE c \in good : \A d \in good : c <= d],
                  PathFrom(pat, k + 1, s,
                           ends[CHOOSE c \in good : \A d \in good : c <= d]))
GoodEnds(pat, k, s, ends) ==
    FirstPath(pat, k, s, ends,
              {c \in 1..Len(ends) : Matches(pat, k + 1, s, ends[c])})
PathFrom(pat, k, s, i) ==
    IF k > Len(pat) THEN [ok |-> TRUE, ends |-> <<>>]
    ELSE GoodEnds(pat, k, s, ElementEnds(pat[k], s, i))

\* The groups of a match that starts at index i with the element ends
\* given: group g spans the elements spans[g][1]..spans[g][2]
GroupsOf(s, i, ends, spans) ==
    [g \in 1..Len(spans) |->
        SubSeq(s, IF spans[g][1] = 1 THEN i ELSE ends[spans[g][1] - 1],
               ends[spans[g][2]] - 1)]

MatchResult(s, i, path, spans) ==
    IF path.ok
    THEN [matched |-> TRUE, groups |-> GroupsOf(s, i, path.ends, spans),
          whole |-> SubSeq(s, i, (<<i>> \o path.ends)[Len(path.ends) + 1] - 1)]
    ELSE NoMatch

\* re.match(pattern, s)
ReMatch(pat, spans, s) == MatchResult(s, 1, PathFrom(pat, 1, s, 1), spans)

\* re.search(pattern, s): the match at the first index that has one
SearchAt(pat, spans, s, starts) ==
    IF starts = {} THEN NoMatch
    ELSE LET i == CHOOSE a \in starts : \A b \in starts : a <= b
         IN  MatchResult(s, i, PathFrom(pat, 1, s, i), spans)

ReSearch(pat, spans, s) ==
    SearchAt(pat, spans, s, {i \in 1..(Len(s) + 1) : Matches(pat, 1, s, i)})

(***************************************************************************)
(* OCRProcessor (src/ocr_processor.py): _parse_receipt_text                *)
(***************************************************************************)
\* str.split(sep): the pieces between the occurrences of sep, taken from
\* the left without overlap
RECURSIVE SplitByFrom(_, _, _)
SplitByFrom(s, sep, start) ==
    LET found == {i \in start..(Len(s) - Len(sep) + 1) :
                     SubSeq(s, i, i + Len(sep) - 1) = sep}
    IN  IF found = {} THEN <<SubSeq(s, start, Len(s))>>
        ELSE LET i == CHOOSE a \in found : \A b \in found : a <= b
             IN  <<SubSeq(s, start, i - 1)>> \o SplitByFrom(s, sep, i + Len(sep))

SplitBy(s, sep) == SplitByFrom(s, sep, 1)

\* [€$£¥₹]?\d+[.,]\d+
ReceiptPrice == <<Opt("currency"), Plus("digit"), Rep("separator", 1, 1, TRUE),
                  Plus("digit")>>
\* \d+[.,]?\d*
ReceiptNumber == <<Plus("digit"), Opt("separator"), Star("digit")>>

\* item_patterns, each with the elements its groups span
item_patterns ==
    << [pat |-> <<Plus("alpha_space"), Plus("space"), NumberElement,
                  Star("space"), Star("alpha"), Star("space")>> \o ReceiptPrice,
        spans |-> <<<<1, 1>>, <<3, 3>>, <<5, 5>>, <<7, 10>>>>],
       [pat |-> ReceiptNumber \o <<Star("space"), Plus("alpha"), Plus("space"),
                  Plus("alpha_space"), Star("space")>> \o ReceiptPrice,
        spans |-> <<<<1, 3>>, <<5, 5>>, <<7, 7>>, <<9, 12>>>>],
       [pat |-> <<Plus("alpha_space"), Star("space")>> \o ReceiptPrice,
        spans |-> <<<<1, 1>>, <<3, 6>>>>] >>

skip_words == << <<"t","o","t","a","l">>, <<"s","u","b","t","o","t","a","l">>,
                 <<"t","a","x">>, <<"r","e","c","e","i","p","t">>,
                 <<"t","h","a","n","k">>, <<"s","t","o","r","e">>,
                 <<"a","d","d","r","e","s","s">> >>

invalid_words == << <<"t","o","t","a","l">>, <<"s","u","b","t","o","t","a","l">>,
                    <<"t","a","x">>, <<"c","h","a","n","g","e">>,
                    <<"c","a","s","h">>, <<"c","a","r","d">>,
                    <<"r","e","c","e","i","p","t">>, <<"t","h","a","n","k">>,
                    <<"s","t","o","r","e">> >>

\* any(word in s.lower() for word in words)
HasAnyWord(s, words) == \E w \in 1..Len(words) : Contains(Lower(s), words[w])

\* re.split(r'(\d+[.,]?\d*)', group): parts[1] and parts[2] for a group that
\* holds a number; parts[2] runs up to the next number
SplitParts(group) ==
    LET m == ReSearch(ReceiptNumber, <<>>, group)
        first == CHOOSE i \in 1..Len(group) : IsDigit(group[i])
                    /\ \A j \in 1..(i - 1) : ~IsDigit(group[j])
        after == SubSeq(group, first + Len(m.whole), Len(group))
        digits == {i \in 1..Len(after) : IsDigit(after[i])}
    IN  [number |-> m.whole,
         rest |-> IF digits = {} THEN after
                  ELSE SubSeq(after, 1,
                         (CHOOSE i \in digits : \A j \in digits : i <= j) - 1)]

EmptyReceiptItem(raw_text) ==
    [name |-> <<>>, quantity |-> <<>>, unit |-> <<>>, price |-> <<>>,
     raw_text |-> raw_text]

\* One turn of the loop over the groups of _extract_item_from_match
WithGroup(item, group) ==
    IF PathFrom(ReceiptPrice, 1, group, 1).ok
    THEN [item EXCEPT !.price = group]
    ELSE IF Len(group) > 0 /\ IsDigit(group[1])
         THEN LET parts == SplitParts(group)
              IN  [item EXCEPT !.quantity = parts.number,
                               !.unit = IF Strip(parts.rest) # <<>>
                                        THEN Strip(parts.rest) ELSE item.unit]
         ELSE IF item.name = <<>> \/ Len(group) > Len(item.name)
              THEN [item EXCEPT !.name = group]
              ELSE item

RECURSIVE WithGroups(_, _, _)
WithGroups(item, groups, g) ==
    IF g > Len(groups) THEN item
    ELSE WithGroups(WithGroup(item, Strip(groups[g])), groups, g + 1)

\* OCRProcessor._extract_item_from_match: None for fewer than three groups
ExtractItemFromMatch(m) ==
    IF Len(m.groups) >= 3
    THEN Some(WithGroups(EmptyReceiptItem(m.whole), m.groups, 1))
    ELSE None

\* OCRProcessor._is_valid_item
IsValidItem(item) ==
    /\ Len(Strip(item.name)) >= 2
    /\ ~HasAnyWord(Strip(item.name), invalid_words)
    /\ HasAlpha(Strip(item.name))

\* The first of item_patterns, from p on, that re.search finds in the line
RECURSIVE FirstPatternMatch(_, _)
PatternOr(m, line, p) ==
    IF m.matched THEN m ELSE FirstPatternMatch(line, p + 1)
FirstPatternMatch(line, p) ==
    IF p > Len(item_patterns) THEN NoMatch
    ELSE PatternOr(ReSearch(item_patterns[p].pat, item_patterns[p].spans, line),
                   line, p)

MinLineLength == 3

\* What one line of the receipt adds to items: nothing, or one item
ItemsOfMatch(m) ==
    IF m.matched /\ ExtractItemFromMatch(m).some
    THEN <<ExtractItemFromMatch(m).val>> ELSE <<>>

ItemsOfLine(raw_line) ==
    IF Len(Strip(raw_line)) < MinLineLength THEN <<>>
    ELSE IF HasAnyWord(Strip(raw_line), skip_words) THEN <<>>
         ELSE ItemsOfMatch(FirstPatternMatch(Strip(raw_line), 1))

RECURSIVE ItemsOfLines(_, _)
ItemsOfLines(all_lines, l) ==
    IF l > Len(all_lines) THEN <<>>
    ELSE ItemsOfLine(all_lines[l]) \o ItemsOfLines(all_lines, l + 1)

\* OCRProcessor._parse_receipt_text
ProcessorParseReceiptText(ocr_text) ==
    SelectSeq(ItemsOfLines(SplitBy(ocr_text, <<NL>>), 1), IsValidItem)

\* Receipt lines of the shape "name quantity unit price" and other lines
MaxReceiptLines == 2
ReceiptNames == { <<"M","i","l","k">>, <<"T","e","a">>, <<"A","p","p","l","e","s">> }
ReceiptQuantities == { <<"2">>, <<"2",".","5","0">> }
ReceiptUnits == { <<>>, <<"k","g">>, <<"g","r","a","m">> }
ReceiptPrices == { <<"$","3",".","5","0">> }
OtherLines == { <<"T","o","t","a","l"," "," ","1","0",".","5","0">>,
                <<"S","t","o","r","e"," ","R","e","c","e","i","p","t">>,
                <<"B","r","e","a","d"," "," ","2",".","0","0">>,
                <<"C","a","s","h"," ","2"," ","x"," ","1",".","0","0">>,
                <<"2"," ","k","g"," ","R","i","c","e"," ","3",".","0","0">>,
                <<>> }

\* The line "name quantity unit price", the unit left out when there is none
ShapedLine(l) ==
    l.name \o <<" ">> \o l.quantity
    \o (IF l.unit = <<>> THEN <<>> ELSE <<" ">> \o l.unit)
    \o <<" ">> \o l.price

ReceiptLineSpecs ==
    { [shaped |-> TRUE, name |-> n, quantity |-> q, unit |-> u, price |-> p,
       line |-> ShapedLine([name |-> n, quantity |-> q, unit |-> u, price |-> p])] :
         n \in ReceiptNames, q \in ReceiptQuantities, u \in ReceiptUnits,
         p \in ReceiptPrices }
    \cup { [shaped |-> FALSE, line |-> o] : o \in OtherLines }

RECURSIVE JoinLines(_, _)
JoinLines(specs, l) ==
    IF l > Len(specs) THEN <<>>
    ELSE specs[l].line \o (IF l < Len(specs) THEN <<NL>> ELSE <<>>)
         \o JoinLines(specs, l + 1)

ReceiptTextCalls ==
    { [fn |-> "_parse_receipt_text", specs |-> sp, text |-> JoinLines(sp, 1)] :
         sp \in UNION { [1..n -> ReceiptLineSpecs] : n \in 0..MaxReceiptLines } }

InitReceiptText ==
    /\ OcrIdle
    /\ SvcIdle
    /\ DbIdle
    /\ MlIdle
    /\ call \in ReceiptTextCalls
    /\ ret = NoReturn

\* One call of OCRProcessor._parse_receipt_text
CallParseReceiptText ==
    /\ call.fn = "_parse_receipt_text"
    /\ ~ ret.returned
    /\ ret' = [returned |-> TRUE, value |-> ProcessorParseReceiptText(call.text)]
    /\ UNCHANGED <<call, ocrVars, dbVars, mlVars, svcVars>>

NextReceiptText == CallParseReceiptText

SpecReceiptText == InitReceiptText /\ [][NextReceiptText]_vars

\* The words the statement names
StatedWords == invalid_words

\* The statement's validity of a name
StatedValidName(name) ==
    /\ Len(name) >= 2
    /\ HasAlpha(name)
    /\ \A w \in 1..Len(StatedWords) : ~Contains(Lower(name), StatedWords[w])

\* A line that holds none of the words of either list
PlainLine(line) == ~HasAnyWord(line, invalid_words) /\ ~HasAnyWord(line, skip_words)

\* Every returned item is valid and comes from a line without a skipped word
ReturnedItemsValid ==
    ret.returned =>
        \A i \in 1..Len(ret.value) :
            /\ StatedValidName(ret.value[i].name)
            /\ \E l \in 1..Len(call.specs) :
                  /\ Contains(call.specs[l].line, ret.value[i].raw_text)
                  /\ ~HasAnyWord(call.specs[l].line, skip_words)

\* A text made only of shaped lines without any of the words yields the
\* names of its lines, one item a line
ShapedLinesYieldNames ==
    (/\ ret.returned
     /\ \A l \in 1..Len(call.specs) :
           call.specs[l].shaped /\ PlainLine(call.specs[l].line))
    => /\ Len(ret.value) = Len(call.specs)
       /\ \A l \in 1..Len(call.specs) : ret.value[l].name = call.specs[l].name

\* C25: every item _parse_receipt_text returns passes _is_valid_item and
\* comes from a line without a header/footer word, and every line of the
\* shape "name, quantity with optional unit, price" without such a word
\* yields exactly one item carrying that name.
C25_ValidItemsAndShapedLines == ReturnedItemsValid /\ ShapedLinesYieldNames

(***************************************************************************)
(* TextParser (src/text_parser.py)                                         *)
(***************************************************************************)
\* self.all_units: weight, volume, count
all_units == << <<"k","g">>, <<"g">>, <<"g","r","a","m">>, <<"g","r","a","m","s">>,
             <<"k","i","l","o","g","r","a","m">>,
             <<"k","i","l","o","g","r","a","m","s">>, <<"l","b">>,
             <<"l","b","s">>, <<"p","o","u","n","d">>,
             <<"p","o","u","n","d","s">>, <<"o","z">>, <<"o","u","n","c","e">>,
             <<"o","u","n","c","e","s">>, <<"l">>, <<"l","i","t","e","r">>,
             <<"l","i","t","e","r","s">>, <<"l","i","t","r","e">>,
             <<"l","i","t","r","e","s">>, <<"m","l">>,
             <<"m","i","l","l","i","l","i","t","e","r">>,
             <<"m","i","l","l","i","l","i","t","e","r","s">>, <<"c","u","p">>,
             <<"c","u","p","s">>, <<"p","i","n","t">>, <<"p","i","n","t","s">>,
             <<"u","n","i","t">>, <<"u","n","i","t","s">>,
             <<"p","i","e","c","e">>, <<"p","i","e","c","e","s">>, <<"p","c">>,
             <<"p","c","s">>, <<"i","t","e","m">>, <<"i","t","e","m","s">>,
             <<"p","a","c","k">>, <<"p","a","c","k","s">>, <<"b","o","x">>,
             <<"b","o","x","e","s">> >>

\* What str.split() takes for whitespace
IsWhitespace(c) == c = " " \/ c = NL

\* ' '.join(s.split()): the words of s, one space between them
NormalizeSpaces(s) ==
    LET Kept(i) == \/ ~IsWhitespace(s[i])
                   \/ /\ i > 1 /\ ~IsWhitespace(s[i - 1])
                      /\ \E j \in (i + 1)..Len(s) : ~IsWhitespace(s[j])
        Before(i) == Cardinality({j \in 1..i : Kept(j)})
        n == Before(Len(s))
    IN  [k \in 1..n |->
            LET i == CHOOSE j \in 1..Len(s) : Kept(j) /\ Before(j) = k
            IN  IF IsWhitespace(s[i]) THEN " " ELSE s[i]]

\* re.sub(r'^(w1|w2|...)\s+', '', s, flags=re.IGNORECASE): the first of the
\* words that s starts with, followed by whitespace, goes with the whitespace
RECURSIVE RemoveLeadingWord(_, _, _)
RemoveLeadingWord(s, words, w) ==
    IF w > Len(words) THEN s
    ELSE IF /\ Len(s) > Len(words[w])
            /\ Lower(SubSeq(s, 1, Len(words[w]))) = words[w]
            /\ IsWhitespace(s[Len(words[w]) + 1])
         THEN LET rest == SubSeq(s, Len(words[w]) + 1, Len(s))
                  kept == {i \in 1..Len(rest) : ~IsWhitespace(rest[i])}
              IN  IF kept = {} THEN <<>>
                  ELSE SubSeq(rest, CHOOSE i \in kept : \A j \in kept : i <= j,
                              Len(rest))
         ELSE RemoveLeadingWord(s, words, w + 1)

PurchasePrefixes == << <<"b","o","u","g","h","t">>, <<"p","u","r","c","h","a","s","e","d">>, <<"g","o","t">>, <<"i"," ","b","o","u","g","h","t">>, <<"i"," ","g","o","t">> >>

\* TextParser._clean_text
CleanText(message) ==
    NormalizeSpaces(RemoveLeadingWord(message, PurchasePrefixes, 1))

RECURSIVE SplitEach(_, _, _)
SplitEach(strings, sep, k) ==
    IF k > Len(strings) THEN <<>>
    ELSE SplitBy(strings[k], sep) \o SplitEach(strings, sep, k + 1)

separators == << <<",">>, <<";">>, <<" ","a","n","d"," ">>, <<" ","&"," ">>, <<NL>> >>

RECURSIVE SplitBySeparators(_, _)
SplitBySeparators(strings, k) ==
    IF k > Len(separators) THEN strings
    ELSE SplitBySeparators(SplitEach(strings, separators[k], 1), k + 1)

NonEmpty(s) == s # <<>>

\* TextParser._split_items
SplitItems(cleaned) ==
    LET found == SplitBySeparators(<<cleaned>>, 1)
    IN  SelectSeq([k \in 1..Len(found) |-> Strip(found[k])], NonEmpty)

\* Digits with single underscores between them, as float() takes them
DigitPart(d) ==
    /\ Len(d) > 0
    /\ \A i \in 1..Len(d) : IsDigit(d[i]) \/ d[i] = "_"
    /\ IsDigit(d[1]) /\ IsDigit(d[Len(d)])
    /\ \A i \in 1..(Len(d) - 1) : ~(d[i] = "_" /\ d[i + 1] = "_")

\* The part of s before the first character of the set, and the part after
\* it (no part after it when the set has no character in s)
CutAt(s, chars) ==
    LET at == {i \in 1..Len(s) : s[i] \in chars}
    IN  IF at = {} THEN [head |-> s, cut |-> FALSE, tail |-> <<>>]
        ELSE LET i == CHOOSE k \in at : \A j \in at : k <= j
             IN  [head |-> SubSeq(s, 1, i - 1), cut |-> TRUE,
                  tail |-> SubSeq(s, i + 1, Len(s))]

Unsigned(s) == IF Len(s) > 0 /\ s[1] \in {"+", "-"} THEN Tail(s) ELSE s

IsMantissa(m) ==
    LET parts == CutAt(m, {".", ","})
    IN  \/ DigitPart(parts.head) /\ (parts.tail = <<>> \/ DigitPart(parts.tail))
        \/ parts.head = <<>> /\ parts.cut /\ DigitPart(parts.tail)

\* TextParser._is_number: float() takes the text once its commas are dots
IsNumber(s) ==
    LET body == Unsigned(Strip(s))
        parts == CutAt(body, {"e", "E"})
    IN  \/ Lower(body) \in { <<"i","n","f">>, <<"i","n","f","i","n","i","t","y">>, <<"n","a","n">> }
        \/ /\ IsMantissa(parts.head)
           /\ parts.cut => DigitPart(Unsigned(parts.tail))

\* TextParser._is_unit
IsUnit(s) == \E u \in 1..Len(all_units) : Lower(s) = Lower(all_units[u])

Articles == << <<"a">>, <<"a","n">>, <<"t","h","e">>, <<"s","o","m","e">>, <<"o","f">> >>

\* re.sub(r'\s+' + unit + r'$', '', name, flags=re.IGNORECASE)
RemoveTrailingUnit(name, unit) ==
    IF /\ Len(name) > Len(unit)
       /\ Lower(SubSeq(name, Len(name) - Len(unit) + 1, Len(name))) = Lower(unit)
       /\ IsSpace(name[Len(name) - Len(unit)])
    THEN LET kept == {i \in 1..(Len(name) - Len(unit)) : ~IsSpace(name[i])}
         IN  IF kept = {} THEN <<>>
             ELSE SubSeq(name, 1, CHOOSE i \in kept : \A j \in kept : i >= j)
    ELSE name

\* for unit in self.all_units: the units from u on, each tried once in the
\* order of the list; the next one that removes something is the first of
\* them that the name ends with
RECURSIVE RemoveTrailingUnits(_, _)
RemoveTrailingUnits(name, u) ==
    LET hits == {k \in u..Len(all_units) :
                    RemoveTrailingUnit(name, all_units[k]) # name}
    IN  IF hits = {} THEN name
        ELSE LET k == CHOOSE a \in hits : \A b \in hits : a <= b
             IN  RemoveTrailingUnits(RemoveTrailingUnit(name, all_units[k]), k + 1)

\* TextParser._clean_item_name
CleanItemName(name) ==
    Title(Strip(RemoveTrailingUnits(
        RemoveLeadingWord(NormalizeSpaces(name), Articles, 1), 1)))

Unknown == <<"u","n","k","n","o","w","n">>
Units == <<"u","n","i","t","s">>

\* patterns of _parse_single_item, each with the elements its groups span
single_item_patterns ==
    << [pat |-> <<Plus("digit"), FractionElement, Star("space"), Plus("alpha"),
                  Plus("space"), Plus("any"), EndElement>>,
        spans |-> <<<<1, 2>>, <<4, 4>>, <<6, 6>>>>],
       [pat |-> <<LazyPlus("any"), Plus("space"), Plus("digit"), FractionElement,
                  Star("space"), Plus("alpha"), EndElement>>,
        spans |-> <<<<1, 1>>, <<3, 4>>, <<6, 6>>>>],
       [pat |-> <<Plus("digit"), Plus("space"), Plus("any"), EndElement>>,
        spans |-> <<<<1, 1>>, <<3, 3>>>>],
       [pat |-> <<LazyPlus("any"), Plus("space"), Plus("digit"), EndElement>>,
        spans |-> <<<<1, 1>>, <<3, 3>>>>],
       [pat |-> <<Plus("any"), EndElement>>,
        spans |-> <<<<1, 1>>>>] >>

EmptyPurchaseItem(raw_text) ==
    [name |-> <<>>, quantity |-> <<>>, unit |-> <<>>, raw_text |-> raw_text]

\* What the groups of the matching pattern make of the item
ItemOfGroups(item, groups) ==
    IF Len(groups) = 3
    THEN IF IsNumber(groups[1])
         THEN [item EXCEPT !.quantity = groups[1],
                           !.unit = IF IsUnit(groups[2]) THEN groups[2] ELSE <<>>,
                           !.name = groups[3]]
         ELSE [item EXCEPT !.name = groups[1],
                           !.quantity = groups[2],
                           !.unit = IF IsUnit(groups[3]) THEN groups[3] ELSE <<>>]
    ELSE IF Len(groups) = 2
         THEN IF IsNumber(groups[1])
              THEN [item EXCEPT !.quantity = groups[1], !.name = groups[2],
                                !.unit = Units]
              ELSE IF IsNumber(groups[2])
                   THEN [item EXCEPT !.name = groups[1], !.quantity = groups[2],
                                     !.unit = Units]
                   ELSE [item EXCEPT !.name = groups[1] \o <<" ">> \o groups[2]]
         ELSE [item EXCEPT !.name = groups[1], !.quantity = Unknown]

\* The first of single_item_patterns, from p on, that matches
RECURSIVE FirstSingleMatch(_, _)
SingleOr(m, s, p) == IF m.matched THEN m ELSE FirstSingleMatch(s, p + 1)
FirstSingleMatch(s, p) ==
    IF p > Len(single_item_patterns) THEN NoMatch
    ELSE SingleOr(ReMatch(single_item_patterns[p].pat,
                          single_item_patterns[p].spans, s), s, p)

MinNameLength == 2

Cleaned(item) ==
    LET name == CleanItemName(item.name)
    IN  IF Len(name) < MinNameLength THEN None
        ELSE Some([item EXCEPT !.name = name])

MatchedItem(item, m) ==
    Cleaned(IF m.matched THEN ItemOfGroups(item, m.groups) ELSE item)

\* TextParser._parse_single_item
ParseSingleItem(item_string) ==
    IF Len(item_string) < MinNameLength THEN None
    ELSE MatchedItem(EmptyPurchaseItem(item_string),
                     FirstSingleMatch(Strip(item_string), 1))

RECURSIVE ParsedItems(_, _)
ParsedOne(parsed) == IF parsed.some THEN <<parsed.val>> ELSE <<>>
ParsedItems(item_strings, k) ==
    IF k > Len(item_strings) THEN <<>>
    ELSE ParsedOne(ParseSingleItem(Strip(item_strings[k])))
         \o ParsedItems(item_strings, k + 1)

\* TextParser.parse_purchase_text
ParsePurchaseText(message) == ParsedItems(SplitItems(CleanText(message)), 1)

(***************************************************************************)
(* ReceiptHandler._save_receipt_to_db: what a failed save leaves behind    *)
(***************************************************************************)
\* The receipt items of the receipt saved last
ItemsOfLastReceipt(rows, rid) == {k \in 1..Len(rows) : rows[k].receipt_id = rid}

\* C30: _save_receipt_to_db is all-or-nothing: when it returns None (the
\* reply is 'Failed to save receipt data') no Receipt, Product or
\* ReceiptItem row of the call remains, and when it returns a receipt id the
\* receipt and one ReceiptItem per extracted item are persisted.
C30_SaveAllOrNothing ==
    [][/\ reply' = ReplySaveFailed
            => UNCHANGED <<receipts, products, receipt_items>>
       /\ (reply' = ReplyProcessed /\ receipts' # receipts)
            => /\ Len(receipts') = Len(receipts) + 1
               /\ Cardinality(ItemsOfLastReceipt(receipt_items', Len(receipts')))
                    = Len(result'.items)]_vars

(***************************************************************************)
(* SmartShopBot (src/bot.py): the handlers of photo, text and callback      *)
(* updates and the quantity clarification they share through               *)
(* context.user_data.  A sender has sent /start before (Telegram opens a   *)
(* private chat with it), so the users row add_purchase refers to exists.  *)
(***************************************************************************)
BotUsers == {1, 2}

\* The categories table as init_pool fills it (_insert_default_categories)
default_categories ==
    << [name |-> "produce", keywords |-> <<<<"a","p","p","l","e">>, <<"b","a","n","a","n","a">>, <<"o","r","a","n","g","e">>, <<"t","o","m","a","t","o">>, <<"l","e","t","t","u","c","e">>, <<"c","a","r","r","o","t">>, <<"o","n","i","o","n">>, <<"p","o","t","a","t","o">>, <<"f","r","u","i","t">>, <<"v","e","g","e","t","a","b","l","e">>>>],
       [name |-> "dairy", keywords |-> <<<<"m","i","l","k">>, <<"c","h","e","e","s","e">>, <<"y","o","g","u","r","t">>, <<"b","u","t","t","e","r">>, <<"c","r","e","a","m">>, <<"e","g","g","s">>>>],
       [name |-> "meat", keywords |-> <<<<"c","h","i","c","k","e","n">>, <<"b","e","e","f">>, <<"p","o","r","k">>, <<"f","i","s","h">>, <<"s","a","l","m","o","n">>, <<"t","u","r","k","e","y">>, <<"h","a","m">>, <<"b","a","c","o","n">>>>],
       [name |-> "pantry", keywords |-> <<<<"r","i","c","e">>, <<"p","a","s","t","a">>, <<"b","r","e","a","d">>, <<"f","l","o","u","r">>, <<"s","u","g","a","r">>, <<"s","a","l","t">>, <<"o","i","l">>, <<"v","i","n","e","g","a","r">>, <<"s","p","i","c","e">>>>],
       [name |-> "beverages", keywords |-> <<<<"w","a","t","e","r">>, <<"j","u","i","c","e">>, <<"s","o","d","a">>, <<"c","o","f","f","e","e">>, <<"t","e","a">>, <<"b","e","e","r">>, <<"w","i","n","e">>>>],
       [name |-> "frozen", keywords |-> <<<<"i","c","e"," ","c","r","e","a","m">>, <<"f","r","o","z","e","n">>, <<"p","i","z","z","a">>>>],
       [name |-> "household", keywords |-> <<<<"s","o","a","p">>, <<"d","e","t","e","r","g","e","n","t">>, <<"t","o","i","l","e","t"," ","p","a","p","e","r">>, <<"c","l","e","a","n","i","n","g">>, <<"s","h","a","m","p","o","o">>>>],
       [name |-> "snacks", keywords |-> <<<<"c","h","i","p","s">>, <<"c","o","o","k","i","e","s">>, <<"c","a","n","d","y">>, <<"c","h","o","c","o","l","a","t","e">>, <<"n","u","t","s">>>>],
       [name |-> "bakery", keywords |-> <<<<"b","r","e","a","d">>, <<"c","a","k","e">>, <<"p","a","s","t","r","y">>, <<"m","u","f","f","i","n">>, <<"b","a","g","e","l">>>>],
       [name |-> "other", keywords |-> <<>>] >>

\* dict.get(key, default)
Get(d, key, default) == IF key \in DOMAIN d THEN d[key] ELSE default

Unspecified == <<"u","n","s","p","e","c","i","f","i","e","d">>
SkipQuantity == "skip_quantity"

\* Updates the bot receives: texts of purchases, quantity replies, photos
\* (each identified with the text pytesseract reads off it) and button data
BotTexts ==
    { <<"2","k","g"," ","a","p","p","l","e","s",","," ","m","i","l","k">>,
      <<"m","i","l","k",","," ","b","r","e","a","d">>,
      <<"1","L"," ","m","i","l","k">>,
      <<"x">> }
QuantityReplies ==
    { <<"2","k","g">>,
      <<" ","3"," ","u","n","i","t","s">>,
      <<"1","L"," ","m","i","l","k">> }
BotPhotos ==
    { <<"M","i","l","k"," ","1","L"," ","3",".","5","0","\n","A","p","p","l","e","s"," ","2",".","5","0"," ","k","g"," ","5",".","0","0">>,
      <<"T","o","t","a","l"," ","1","0",".","5","0">> }
CallbackData == {SkipQuantity, "other"}


\* self.text_parser.parse_purchase_text(text)
ParsedText(message) == ParsePurchaseText(message)
\* pytesseract.image_to_string and _parse_receipt_text on an image
ParsedPhoto(image) == ProcessorParseReceiptText(image)
\* await self.ml.categorize_item(item['name'])
CategoryOf(name) == CategorizeItem(name, default_categories)

\* process_items: item['category'] = await self.ml.categorize_item(item['name'])
Categorized(item) ==
    MapSet(item, "category", CategoryOf(item.name))

\* process_items: not item.get('quantity') or item.get('quantity') == 'unknown'
IsMissingQuantity(item) ==
    \/ Get(item, "quantity", <<>>) = <<>>
    \/ Get(item, "quantity", <<>>) = Unknown

\* The row DatabaseManager.add_purchase(user_id, item) inserts
PurchaseRow(user_id, item) ==
    [user_id       |-> user_id,
     item_name     |-> Get(item, "name", <<>>),
     category      |-> Get(item, "category", "other"),
     quantity      |-> Get(item, "quantity", <<>>),
     unit          |-> Get(item, "unit", <<>>),
     price         |-> Get(item, "price", <<>>),
     purchase_date |-> now,
     raw_data      |-> item]

\* Variant: every item is stored, none is kept for clarification
StoreEach(user_id, item, rest) ==
    [rows |-> <<PurchaseRow(user_id, item)>> \o rest.rows, missing |-> rest.missing]

\* One turn of the loop of process_items, given what the later turns do
ProcessItem(user_id, item, rest) ==
    IF IsMissingQuantity(item)
    THEN [rows |-> rest.rows, missing |-> <<item>> \o rest.missing]
    ELSE [rows |-> <<PurchaseRow(user_id, item)>> \o rest.rows, missing |-> rest.missing]

\* SmartShopBot.process_items: the rows added and the list returned
RECURSIVE ProcessItemsFrom(_, _, _)
ProcessItemsFrom(user_id, items, k) ==
    IF k > Len(items) THEN [rows |-> <<>>, missing |-> <<>>]
    ELSE ProcessItem(user_id, Categorized(items[k]),
                     ProcessItemsFrom(user_id, items, k + 1))
ProcessItems(user_id, items) == ProcessItemsFrom(user_id, items, 1)

\* One call of the Telegram API made while an update is handled
Telegram(method, message, about) ==
    [method |-> method, text |-> message, about |-> about]

\* What a handler or helper does: the purchases rows it adds, the user_data
\* it leaves, the Telegram calls it makes, and whether it raised
Outcome(rows, data, calls, raised) ==
    [rows |-> rows, data |-> data, sent |-> calls, raised |-> raised]

\* An update carrying a message (text or photo) or a callback query;
\* update.message is None for a callback query
MessageUpdate(update_id, user_id, kind, content) ==
    [update_id |-> update_id, user_id |-> user_id, kind |-> kind,
     message |-> Some(content), data |-> None]
CallbackUpdate(update_id, user_id, data) ==
    [update_id |-> update_id, user_id |-> user_id, kind |-> "callback_query",
     message |-> None, data |-> Some(data)]

\* SmartShopBot.ask_for_quantity: both branches call update.message.reply_text
\* first, which raises AttributeError when update.message is None
AskForQuantity(update, data) ==
    IF ~ update.message.some THEN Outcome(<<>>, data, <<>>, TRUE)
    ELSE IF Get(data, "current_item_index", 0) >= Len(Get(data, "pending_items", <<>>))
    THEN Outcome(<<>>, <<>>, <<Telegram("reply_text", "all_added", <<>>)>>, FALSE)
    ELSE Outcome(<<>>, data,
                 <<Telegram("reply_text", "ask_quantity",
                            Get(data, "pending_items", <<>>)
                                [Get(data, "current_item_index", 0) + 1].name)>>,
                 FALSE)

\* A helper's outcome after the rows and calls of its caller
After(rows, calls, out) ==
    Outcome(rows \o out.rows, out.data, calls \o out.sent, out.raised)

\* context.user_data['pending_items'] = ...; ['current_item_index'] = ...
WithPending(data, pending_items, current_item_index) ==
    MapSet(MapSet(data, "pending_items", pending_items),
           "current_item_index", current_item_index)

\* current_item['quantity'] = quantity, on the dict the list holds
WithQuantity(pending_items, current_index, quantity) ==
    [pending_items EXCEPT ![current_index + 1] =
        MapSet(pending_items[current_index + 1], "quantity", quantity)]

\* handle_quantity_response and the skip branch of handle_callback_query,
\* from current_item['quantity'] = ... on: store the item, move on, then ask
\* for the next quantity or finish
StoreAndAdvance(update, data, pending_items, current_index, calls, finished) ==
    IF current_index + 1 < Len(pending_items)
    THEN After(<<PurchaseRow(update.user_id, pending_items[current_index + 1])>>,
               calls,
               AskForQuantity(update,
                              WithPending(data, pending_items, current_index + 1)))
    ELSE Outcome(<<PurchaseRow(update.user_id, pending_items[current_index + 1])>>,
                 <<>>,
                 calls \o <<Telegram("reply_text", finished, <<>>)>>,
                 FALSE)

\* SmartShopBot.handle_quantity_response
HandleQuantityResponse(update, data) ==
    IF Get(data, "current_item_index", 0) < Len(Get(data, "pending_items", <<>>))
    THEN StoreAndAdvance(update, data,
                         WithQuantity(Get(data, "pending_items", <<>>),
                                      Get(data, "current_item_index", 0),
                                      Strip(update.message.val)),
                         Get(data, "current_item_index", 0),
                         <<>>, "all_items_added")
    ELSE Outcome(<<>>, data, <<>>, FALSE)

\* handle_text and handle_photo from `if not items` on
StoreItems(update, data, items, processed, first_call, nothing, success) ==
    IF items = <<>>
    THEN Outcome(<<>>, data,
                 <<first_call, Telegram("edit_text", nothing, <<>>)>>, FALSE)
    ELSE IF processed.missing # <<>>
    THEN After(processed.rows, <<first_call>>,
               AskForQuantity(update, WithPending(data, processed.missing, 0)))
    ELSE Outcome(processed.rows, data,
                 <<first_call, Telegram("edit_text", success, Len(items))>>, FALSE)

\* SmartShopBot.handle_text
TextOutcome(update, data) ==
    IF "pending_items" \in DOMAIN data THEN HandleQuantityResponse(update, data)
    ELSE StoreItems(update, data, ParsedText(update.message.val),
                    ProcessItems(update.user_id, ParsedText(update.message.val)),
                    Telegram("reply_text", "processing_text", <<>>),
                    "not_understood", "items_added")

\* SmartShopBot.handle_photo from `if not items` on, given what
\* process_receipt returned
PhotoOutcome(update, data, items) ==
    StoreItems(update, data, items, ProcessItems(update.user_id, items),
               Telegram("reply_text", "processing_receipt", <<>>),
               "no_items", "receipt_processed")

\* SmartShopBot.handle_callback_query
CallbackOutcome(update, data) ==
    IF /\ update.data.val = SkipQuantity
       /\ Get(data, "current_item_index", 0) < Len(Get(data, "pending_items", <<>>))
    THEN StoreAndAdvance(update, data,
                         WithQuantity(Get(data, "pending_items", <<>>),
                                      Get(data, "current_item_index", 0),
                                      Unspecified),
                         Get(data, "current_item_index", 0),
                         <<Telegram("answer", "", <<>>),
                           Telegram("edit_message_text", "skipped",
                                    Get(data, "pending_items", <<>>)
                                        [Get(data, "current_item_index", 0) + 1].name)>>,
                         "finished")
    ELSE Outcome(<<>>, data, <<Telegram("answer", "", <<>>)>>, FALSE)

\* The temporary file of handle_photo: f"temp_receipt_{user_id}.jpg"
ImagePath(user_id) == <<"temp_receipt", user_id>>

\* A photo is identified with the text pytesseract reads off it.
\* OCRProcessor.process_receipt: the items of the image at image_path, and
\* [] when anything raises (cv2.imread gives None for a missing file)
ProcessReceipt(files, image_path) ==
    IF image_path \in DOMAIN files
    THEN ParsedPhoto(files[image_path])
    ELSE <<>>

MaxUpdates == 3   \* updates handled in one behaviour

NoUpdate == [update_id |-> 0, user_id |-> 0, kind |-> "none",
             message |-> None, data |-> None]

\* The state a handler leaves
Handled(update, out) ==
    /\ purchases' = purchases \o out.rows
    /\ user_data' = [user_data EXCEPT ![update.user_id] = out.data]
    /\ sent' = out.sent
    /\ call' = update
    /\ ret' = [returned |-> TRUE, raised |-> out.raised]
    /\ UNCHANGED <<now, requester, patterns, suggestions, temp_files, tasks,
                   ocrVars, dbVars, aiVars, listVars>>

\* A text message is handled by handle_text
HandleTextUpdate(user_id, message) ==
    /\ call.update_id < MaxUpdates
    /\ \E update \in {MessageUpdate(call.update_id + 1, user_id, "text", message)} :
       \E out \in {TextOutcome(update, user_data[user_id])} : Handled(update, out)

\* A photo is handled by handle_photo, start to end: the file is downloaded
\* to image_path, read and removed
HandlePhotoUpdate(user_id, image) ==
    /\ call.update_id < MaxUpdates
    /\ \E update \in {MessageUpdate(call.update_id + 1, user_id, "photo", image)} :
       \E items \in {ProcessReceipt(MapSet(temp_files, ImagePath(user_id), image),
                                     ImagePath(user_id))} :
       \E out \in {PhotoOutcome(update, user_data[user_id], items)} :
          Handled(update, out)

\* A button press is handled by handle_callback_query
HandleCallbackQuery(user_id, data) ==
    /\ call.update_id < MaxUpdates
    /\ \E update \in {CallbackUpdate(call.update_id + 1, user_id, data)} :
       \E out \in {CallbackOutcome(update, user_data[user_id])} : Handled(update, out)

InitBot ==
    /\ OcrIdle
    /\ DbIdle
    /\ MlIdle
    /\ AiIdle
    /\ ListIdle
    /\ call = NoUpdate /\ ret = NoReturn
    /\ user_data = [u \in BotUsers |-> <<>>]
    /\ sent = <<>> /\ temp_files = <<>> /\ tasks = <<>>

NextBot ==
    \/ \E user_id \in BotUsers, message \in BotTexts : HandleTextUpdate(user_id, message)
    \/ \E user_id \in BotUsers, image \in BotPhotos : HandlePhotoUpdate(user_id, image)
    \/ \E user_id \in BotUsers, data \in CallbackData : HandleCallbackQuery(user_id, data)

SpecBot == InitBot /\ [][NextBot]_vars

\* The fields a parser gives an item (process_items adds the category)
Parsed(item) == [f \in DOMAIN item \ {"category"} |-> item[f]]
ParsedAll(items) == [k \in 1..Len(items) |-> Parsed(items[k])]

\* An item whose quantity is known, and one whose quantity is empty or 'unknown'
KnownQuantity(item) == item.quantity # <<>> /\ item.quantity # Unknown
NoQuantity(item) == ~ KnownQuantity(item)

\* The items passed to add_purchase for the rows from row k on
PassedFrom(rows, k) == [i \in 1..(Len(rows) - k + 1) |-> Parsed(rows[k + i - 1].raw_data)]

\* The step handles a text while the sender has no clarification pending
TextWithoutPending ==
    /\ call'.kind = "text"
    /\ call'.update_id = call.update_id + 1
    /\ "pending_items" \notin DOMAIN user_data[call'.user_id]

\* C23: handle_text with no clarification pending passes every parsed item
\* with a known quantity to add_purchase exactly once, with the sender's id
\* and in order, and persists no item whose quantity is empty or 'unknown':
\* those are placed in order in user_data['pending_items'] with
\* current_item_index 0.
C23_TextItemsStoredOrPending ==
    [][TextWithoutPending =>
         \A items \in {ParsedText(call'.message.val)} :
         /\ Len(purchases') >= Len(purchases)
         /\ SubSeq(purchases', 1, Len(purchases)) = purchases
         /\ PassedFrom(purchases', Len(purchases) + 1) = SelectSeq(items, KnownQuantity)
         /\ \A k \in (Len(purchases) + 1)..Len(purchases') :
               purchases'[k].user_id = call'.user_id
         /\ SelectSeq(items, NoQuantity) # <<>>
              => /\ DOMAIN user_data'[call'.user_id]
                      = {"pending_items", "current_item_index"}
                 /\ ParsedAll(user_data'[call'.user_id].pending_items)
                      = SelectSeq(items, NoQuantity)
                 /\ user_data'[call'.user_id].current_item_index = 0
         /\ SelectSeq(items, NoQuantity) = <<>>
              => user_data'[call'.user_id] = user_data[call'.user_id]]_vars

\* C23 witness: the first update, a text with one item of known and one of
\* unknown quantity, has been handled: one row stored, one item pending
C23_Witness ==
    /\ call.kind = "text" /\ call.update_id = 1
    /\ Len(ParsedText(call.message.val)) = 2
    /\ Len(purchases) = 1 /\ purchases[1].user_id = call.user_id
    /\ "pending_items" \in DOMAIN user_data[call.user_id]
    /\ Len(user_data[call.user_id].pending_items) = 1
    /\ user_data[call.user_id].current_item_index = 0

(***************************************************************************)
(* SmartShopBot.ask_for_quantity called on its own, as test_bot.py does and *)
(* as the handlers do: with the update of a message or of a button press   *)
(***************************************************************************)
MaxPending == 2   \* items in pending_items

\* Items awaiting a quantity, as process_items returns them
PendingItems ==
    ProcessItems(1, ParsePurchaseText(<<"m","i","l","k",","," ","b","r","e","a","d",","," ","t","e","a">>)).missing

\* context.user_data before the call: empty, or a clarification at any index
AskData ==
    {<<>>} \cup {WithPending(<<>>, SubSeq(PendingItems, 1, n), i) :
                    n \in 0..MaxPending, i \in 0..MaxPending}

\* ask_for_quantity(update, context) is called for one user
CallAskForQuantity(update) ==
    /\ call = NoCall
    /\ \E out \in {AskForQuantity(update, user_data[update.user_id])} :
          /\ user_data' = [user_data EXCEPT ![update.user_id] = out.data]
          /\ sent' = out.sent
          /\ purchases' = purchases \o out.rows
          /\ ret' = [returned |-> TRUE, raised |-> out.raised]
    /\ call' = [fn |-> "ask_for_quantity", update |-> update,
                data |-> user_data[update.user_id]]
    /\ UNCHANGED <<now, requester, patterns, suggestions, temp_files, tasks,
                   ocrVars, dbVars, aiVars, listVars>>

InitAsk ==
    /\ OcrIdle
    /\ DbIdle
    /\ MlIdle
    /\ AiIdle
    /\ ListIdle
    /\ FnIdle
    /\ user_data \in [BotUsers -> AskData]
    /\ sent = <<>> /\ temp_files = <<>> /\ tasks = <<>>

NextAsk ==
    \/ \E user_id \in BotUsers : CallAskForQuantity(MessageUpdate(1, user_id, "text", <<>>))
    \/ \E user_id \in BotUsers : CallAskForQuantity(CallbackUpdate(1, user_id, SkipQuantity))

SpecAsk == InitAsk /\ [][NextAsk]_vars

\* The call found current_item_index below len(pending_items)
AskedWithinList ==
    /\ call.fn = "ask_for_quantity"
    /\ Get(call.data, "current_item_index", 0) < Len(Get(call.data, "pending_items", <<>>))

\* C24: ask_for_quantity with current_item_index < len(pending_items) sends
\* exactly one message, naming pending_items[current_item_index], and leaves
\* pending_items, the index and the purchases as they were; with the index
\* at or past the end it sends one completion message and clears user_data.
C24_AskOneMessage ==
    call.fn = "ask_for_quantity" =>
       /\ Len(sent) = 1
       /\ purchases = <<>>
       /\ IF AskedWithinList
          THEN /\ sent[1].text = "ask_quantity"
               /\ sent[1].about
                    = call.data.pending_items[call.data.current_item_index + 1].name
               /\ user_data[call.update.user_id] = call.data
          ELSE /\ sent[1].text = "all_added"
               /\ user_data[call.update.user_id] = <<>>

(***************************************************************************)
(* A quantity clarification under way: N items pending at index 0, then    *)
(* quantity replies and presses of the skip button                         *)
(***************************************************************************)
\* context.user_data when handle_text or handle_photo has just asked for the
\* first quantity
NewFlows == {WithPending(<<>>, SubSeq(PendingItems, 1, n), 0) : n \in 1..MaxPending}

InitFlow ==
    /\ OcrIdle
    /\ DbIdle
    /\ MlIdle
    /\ AiIdle
    /\ ListIdle
    /\ call = NoUpdate /\ ret = NoReturn
    /\ user_data \in [BotUsers -> NewFlows]
    /\ sent = <<>> /\ temp_files = <<>> /\ tasks = <<>>

NextFlow ==
    \/ \E user_id \in BotUsers, message \in QuantityReplies :
          HandleTextUpdate(user_id, message)
    \/ \E user_id \in BotUsers : HandleCallbackQuery(user_id, SkipQuantity)

SpecFlow == InitFlow /\ [][NextFlow]_vars

\* The names of the items passed to add_purchase for a user, in order
NamesOf(rows) == [k \in 1..Len(rows) |-> rows[k].item_name]
PassedFor(rows, user_id) ==
    LET OfUser(row) == row.user_id = user_id
    IN  NamesOf(SelectSeq(rows, OfUser))

\* The names of the first n pending items
FirstNames(pending_items, n) ==
    [k \in 1..n |-> pending_items[k].name]

\* While the flow of a user is under way the index is within the list and
\* the items before it, and no others, were passed to add_purchase, in order
FlowInOrder(data, rows, user_id) ==
    data # <<>> =>
       /\ data.current_item_index <= Len(data.pending_items)
       /\ PassedFor(rows, user_id)
            = FirstNames(data.pending_items, data.current_item_index)

\* C26: in a flow of N pending items started at index 0, after any sequence
\* of quantity replies and skips the index never exceeds N and the items
\* are passed to add_purchase in index order, each at most once; the flow
\* ends, with user_data cleared, exactly when all N were passed once; and a
\* reply or skip arriving after that persists nothing.
C26_FlowOnceInOrder ==
    [][\A user_id \in BotUsers :
         /\ user_data[user_id] # <<>>
              => FlowInOrder(user_data'[user_id], purchases', user_id)
         /\ (user_data[user_id] # <<>> /\ user_data'[user_id] = <<>>)
              => PassedFor(purchases', user_id)
                   = FirstNames(user_data[user_id].pending_items,
                                Len(user_data[user_id].pending_items))
         /\ user_data[user_id] = <<>>
              => PassedFor(purchases', user_id) = PassedFor(purchases, user_id)]_vars

\* A user's clarification has items not yet passed to add_purchase
ItemsRemain(data) ==
    /\ "pending_items" \in DOMAIN data
    /\ data.current_item_index < Len(data.pending_items)

\* The list of pending items is still the one it was
SamePending(data, later) ==
    /\ "pending_items" \in DOMAIN later
    /\ FirstNames(later.pending_items, Len(later.pending_items))
         = FirstNames(data.pending_items, Len(data.pending_items))

\* C27: whatever photos, texts and skips arrive, and in whatever order,
\* user_data['pending_items'] is not replaced or cleared before every item
\* of it was passed to add_purchase: while items remain, a step either
\* keeps the list or passes its last item.
C27_PendingKeptUntilStored ==
    [][\A user_id \in BotUsers :
         ItemsRemain(user_data[user_id]) =>
            \/ SamePending(user_data[user_id], user_data'[user_id])
            \/ /\ user_data[user_id].current_item_index + 1
                    = Len(user_data[user_id].pending_items)
               /\ Len(purchases') = Len(purchases) + 1
               /\ purchases'[Len(purchases')].item_name
                    = user_data[user_id].pending_items
                         [Len(user_data[user_id].pending_items)].name]_vars

(***************************************************************************)
(* SmartShopBot.handle_photo, invocations that overlap: each is a task     *)
(* that runs from one await to the next, and another task may run whenever *)
(* it waits.  The awaits after os.remove touch no file and are taken in    *)
(* one step.                                                               *)
(***************************************************************************)
MaxTasks == 2   \* handle_photo invocations in one behaviour

\* An invocation that has sent its first reply and waits for it (line 108)
NewTask(user_id, image) ==
    [user_id |-> user_id, image |-> image, at |-> "reply_text",
     read |-> None, removed |-> None, failed |-> FALSE]

\* What handling the update of task t leaves in the database and user_data
PhotoHandled(t, out) ==
    /\ purchases' = purchases \o out.rows
    /\ user_data' = [user_data EXCEPT ![tasks[t].user_id] = out.data]
    /\ sent' = out.sent

\* handle_photo is invoked and runs up to await update.message.reply_text
StartPhoto(user_id, image) ==
    /\ Len(tasks) < MaxTasks
    /\ tasks' = Append(tasks, NewTask(user_id, image))
    /\ sent' = <<Telegram("reply_text", "processing_receipt", <<>>)>>
    /\ UNCHANGED <<purchases, user_data, temp_files, now, requester, patterns,
                   suggestions, ocrVars, dbVars, fnVars, aiVars, listVars>>

\* The reply was sent: on to await context.bot.get_file (line 113)
PhotoGetFile(t) ==
    /\ tasks[t].at = "reply_text"
    /\ tasks' = [tasks EXCEPT ![t].at = "get_file"]
    /\ UNCHANGED <<purchases, user_data, sent, temp_files, now, requester, patterns,
                   suggestions, ocrVars, dbVars, fnVars, aiVars, listVars>>

\* The file is known: on to await file.download_to_drive (line 117)
PhotoDownload(t) ==
    /\ tasks[t].at = "get_file"
    /\ tasks' = [tasks EXCEPT ![t].at = "download_to_drive"]
    /\ UNCHANGED <<purchases, user_data, sent, temp_files, now, requester, patterns,
                   suggestions, ocrVars, dbVars, fnVars, aiVars, listVars>>

\* The download has written image_path; the task waits to be resumed
PhotoDownloaded(t) ==
    /\ tasks[t].at = "download_to_drive"
    /\ temp_files' = MapSet(temp_files, ImagePath(tasks[t].user_id), tasks[t].image)
    /\ tasks' = [tasks EXCEPT ![t].at = "process_receipt"]
    /\ UNCHANGED <<purchases, user_data, sent, now, requester, patterns,
                   suggestions, ocrVars, dbVars, fnVars, aiVars, listVars>>

\* os.remove(image_path)
Removed(files, image_path) == [p \in DOMAIN files \ {image_path} |-> files[p]]

\* Lines 120-149: process_receipt reads image_path (and returns [] when the
\* file is gone), os.remove raises FileNotFoundError when it is gone, which
\* the except clause reports; otherwise the items are stored
PhotoProcess(t) ==
    /\ tasks[t].at = "process_receipt"
    /\ \E image_path \in {ImagePath(tasks[t].user_id)} :
          IF image_path \in DOMAIN temp_files
          THEN /\ tasks' = [tasks EXCEPT ![t].at = "done",
                                         ![t].read = Some(temp_files[image_path]),
                                         ![t].removed = Some(temp_files[image_path])]
               /\ temp_files' = Removed(temp_files, image_path)
               /\ \E items \in {ProcessReceipt(temp_files, image_path)} :
                  \E out \in {PhotoOutcome(MessageUpdate(t, tasks[t].user_id, "photo",
                                                         tasks[t].image),
                                           user_data[tasks[t].user_id], items)} :
                     PhotoHandled(t, out)
          ELSE /\ tasks' = [tasks EXCEPT ![t].at = "done", ![t].failed = TRUE]
               /\ sent' = <<Telegram("reply_text", "processing_receipt", <<>>),
                            Telegram("edit_text", "error", <<>>)>>
               /\ UNCHANGED <<purchases, user_data, temp_files>>
    /\ UNCHANGED <<now, requester, patterns, suggestions, ocrVars, dbVars, fnVars,
                   aiVars, listVars>>

InitPhotos ==
    /\ OcrIdle
    /\ DbIdle
    /\ MlIdle
    /\ AiIdle
    /\ ListIdle
    /\ call = NoUpdate /\ ret = NoReturn
    /\ user_data = [u \in BotUsers |-> <<>>]
    /\ sent = <<>> /\ temp_files = <<>> /\ tasks = <<>>

NextPhotos ==
    \/ \E user_id \in BotUsers, image \in BotPhotos : StartPhoto(user_id, image)
    \/ \E t \in 1..Len(tasks) : PhotoGetFile(t)
    \/ \E t \in 1..Len(tasks) : PhotoDownload(t)
    \/ \E t \in 1..Len(tasks) : PhotoDownloaded(t)
    \/ \E t \in 1..Len(tasks) : PhotoProcess(t)

SpecPhotos == InitPhotos /\ [][NextPhotos]_vars

MaxListCalls == 3   \* add_items_to_list calls in one behaviour
MaxListItems == 2   \* items in one call

\* The rows of the products table, as ReceiptHandler leaves them
ProductRow(name) ==
    [name |-> name, category |-> CategorizeProduct(name), last_price |-> 1]
ProductTables ==
    { <<>>,
      <<ProductRow(<<"M","i","l","k">>)>>,
      <<ProductRow(<<"M","i","l","k">>), ProductRow(<<"B","r","e","a","d">>)>> }

\* The dicts a caller passes as items
ListItemData ==
    { [name |-> <<"m","i","l","k">>, quantity |-> 1],
      [name |-> <<"B","r","e","a","d">>, quantity |-> 2, unit |-> "loaf"],
      [name |-> <<"T","e","a">>, quantity |-> 1] }
ListItemCalls ==
    UNION {[1..n -> ListItemData] : n \in 0..MaxListItems}

\* .first() of a query: the row of lowest id (no row is updated or deleted)
First(ids) == CHOOSE i \in ids : \A j \in ids : i <= j

\* db.query(ShoppingList).filter(user_id == user.id, is_active == True)
ActiveLists(lists, user_id) ==
    {l \in 1..Len(lists) : lists[l].user_id = user_id /\ lists[l].is_active}

\* db.query(ShoppingListItem).filter(shopping_list_id == ..., product_id == ...)
ListItemsOf(list_items, shopping_list_id, product_id) ==
    {i \in 1..Len(list_items) :
        /\ list_items[i].shopping_list_id = shopping_list_id
        /\ list_items[i].product_id = product_id}

\* existing_item.quantity += ... , or db.add(ShoppingListItem(...))
WithListItem(list_items, existing, shopping_list_id, product_id, item_data) ==
    IF existing # {}
    THEN [list_items EXCEPT ![First(existing)].quantity =
              @ + Get(item_data, "quantity", 1)]
    ELSE Append(list_items,
                [shopping_list_id |-> shopping_list_id,
                 product_id       |-> product_id,
                 quantity         |-> Get(item_data, "quantity", 1),
                 unit             |-> Get(item_data, "unit", "piece")])

\* The loop over items.  For a name no product matches the code builds
\* Product(name=..., category=..., unit=...); the Product model has no
\* column `unit`, the constructor raises TypeError and the call ends in
\* `except`.  Nothing is committed inside the loop otherwise.
RECURSIVE AddItemsFrom(_, _, _, _, _)
AddItemsFrom(items, k, shopping_list_id, prods, list_items) ==
    IF k > Len(items) THEN [ok |-> TRUE, list_items |-> list_items]
    ELSE IF MatchingProducts(prods, items[k].name) = {}
    THEN [ok |-> FALSE, list_items |-> list_items]
    ELSE AddItemsFrom(items, k + 1, shopping_list_id, prods,
                      WithListItem(list_items,
                                   ListItemsOf(list_items, shopping_list_id,
                                               First(MatchingProducts(prods, items[k].name))),
                                   shopping_list_id,
                                   First(MatchingProducts(prods, items[k].name)),
                                   items[k]))

\* The shopping_lists table once the user's active list was got or created
\* (a created list is committed at once)
WithActiveList(lists, user_id) ==
    IF ActiveLists(lists, user_id) # {} THEN lists
    ELSE Append(lists, [user_id |-> user_id, is_active |-> TRUE])

\* ShoppingHandler.add_items_to_list: the returned count and the tables
AddItemsResult(lists, added, count) ==
    [value |-> IF added.ok THEN count ELSE 0,
     shopping_lists |-> lists,
     shopping_list_items |-> IF added.ok THEN added.list_items
                              ELSE shopping_list_items]
AddItems(user_id, items) ==
    IF user_id \notin users
    THEN [value |-> 0, shopping_lists |-> shopping_lists,
          shopping_list_items |-> shopping_list_items]
    ELSE AddItemsResult(WithActiveList(shopping_lists, user_id),
                        AddItemsFrom(items, 1,
                                     First(ActiveLists(WithActiveList(shopping_lists, user_id),
                                                       user_id)),
                                     products, shopping_list_items),
                        Len(items))

AddItemsToList(user_id, items) ==
    /\ call.seq < MaxListCalls
    /\ \E out \in {AddItems(user_id, items)} :
          /\ shopping_lists' = out.shopping_lists
          /\ shopping_list_items' = out.shopping_list_items
          /\ ret' = [returned |-> TRUE, value |-> out.value]
    /\ call' = [fn |-> "add_items_to_list", seq |-> call.seq + 1,
                user_id |-> user_id, items |-> items]
    /\ UNCHANGED <<ocrVars, dbVars, mlVars, aiVars, botVars>>

InitLists ==
    /\ OcrIdle
    /\ MlIdle
    /\ AiIdle
    /\ BotIdle
    /\ ListIdle
    /\ users \in (SUBSET UserIds) \ {{}}
    /\ products \in ProductTables
    /\ receipts = <<>> /\ receipt_items = <<>> /\ reply = ""
    /\ call = [fn |-> "none", seq |-> 0] /\ ret = NoReturn

NextLists ==
    \E user_id \in UserIds, items \in ListItemCalls : AddItemsToList(user_id, items)

SpecLists == InitLists /\ [][NextLists]_vars

\* The quantity listed for a product, and the quantities a call adds to it
Listed(list_items, shopping_list_id, product_id) ==
    SumOf([i \in 1..Len(list_items) |-> list_items[i].quantity],
            ListItemsOf(list_items, shopping_list_id, product_id))
AddedTo(prods, items, product_id) ==
    SumOf([k \in 1..Len(items) |-> items[k].quantity],
            {k \in 1..Len(items) :
                /\ MatchingProducts(prods, items[k].name) # {}
                /\ First(MatchingProducts(prods, items[k].name)) = product_id})

\* C29: a call of add_items_to_list for an existing user leaves the user
\* one active ShoppingList holding at most one ShoppingListItem per
\* product, whose quantity has grown by the quantities of the call's items
\* that resolved to the product, and returns the number of items in the
\* call; a call for an unknown user returns 0 and changes nothing.
C29_OneListSummedQuantities ==
    [][call'.seq = call.seq + 1 =>
         IF call'.user_id \in users
         THEN /\ ret'.value = Len(call'.items)
              /\ Cardinality(ActiveLists(shopping_lists', call'.user_id)) = 1
              /\ \A l \in ActiveLists(shopping_lists', call'.user_id),
                    p \in 1..Len(products') :
                    /\ Cardinality(ListItemsOf(shopping_list_items', l, p)) <= 1
                    /\ Listed(shopping_list_items', l, p)
                         = Listed(shopping_list_items, l, p)
                           + AddedTo(products', call'.items, p)
         ELSE /\ ret'.value = 0
              /\ UNCHANGED <<shopping_lists, shopping_list_items, products>>]_vars

====
